---- MODULE Spec2Model ----
(***************************************************************************)
(* Orders + Payments: two services, each with its own PostgreSQL database, *)
(* coupled only by two Kafka topics.                                       *)
(*                                                                         *)
(* Transactions.  A transaction's writes stay private until its COMMIT     *)
(* step: inserted rows carry the transaction's xid, updates are held in    *)
(* the transaction.  A statement that would wait for another transaction's *)
(* row or unique-key lock is disabled until that transaction ends (READ    *)
(* COMMITTED), and a transaction may fail at any statement or at COMMIT,   *)
(* which rolls it back.  Consecutive statements of one handler that touch  *)
(* only rows the transaction already holds are one step; a statement that  *)
(* reads or locks shared rows starts a new step, and COMMIT is a step.     *)
(*                                                                         *)
(* The bus is the environment of a service: a consumer may be handed any   *)
(* well-formed message, any number of times and in any order.  The two     *)
(* services share no state, so a behaviour runs one deployment of one of   *)
(* them ("running"): the RPC workers of a service in parallel              *)
(* ("orders-rpc", "payments-rpc"), or one RPC worker in parallel with the  *)
(* service's consumer ("orders", "payments").                              *)
(*                                                                         *)
(* Tables are sets of rows where a key generated by the program tells rows *)
(* apart (orders, outbox, topup_idempotency) and bags of rows elsewhere    *)
(* (inbox, payment_operations), so that a duplicate row would show.        *)
(***************************************************************************)
EXTENDS Integers, Sequences, FiniteSets, Bags, TLC

\* ---------------------------------------------------------------- bounds
MaxOrders == 2
MaxAmount == 2
MaxBalance == 2

Users == {"u1", "u2"}
Keys == {"k1"}
Descriptions == {"book", "car"}
OrderWorkers == {"w1", "w2"}
PayWorkers == {"w1", "w2"}
\* the concurrent GetOrder calls, the users who read
Getters == {"g1", "g2"}
ReadUsers == {"u1", "u2"}
\* event ids a message on the bus may carry
EventIds == {101, 102}
\* order ids a PaymentRequested may carry (Payments never sees the orders table)
BusOrderIds == {1, 2}
\* the messages of the partition a consumer loop reads
LogLen == 2
\* the messages of the partition the publisher alone writes to
OutboxLogLen == 4
\* the rows a publisher pass locks (outbox_batch_size), the failed attempts
\* followed per row
Batch == 2
MaxAttempts == 2
\* an identifier that is not a UUID
BadUuid == 0
\* the orders of the table a ListOrders client pages through, the limits it asks for
MaxList == 3
Limits == 0..2
\* the limit of a request that names none
DefaultLimit == 50

\* ------------------------------------------------------------- constants
StatusNew == "NEW"
StatusFinished == "FINISHED"
StatusCancelled == "CANCELLED"
SUCCESS == "SUCCESS"
FAIL_NO_ACCOUNT == "FAIL_NO_ACCOUNT"
FAIL_NOT_ENOUGH_FUNDS == "FAIL_NOT_ENOUGH_FUNDS"
FAIL_INTERNAL == "FAIL_INTERNAL"
ResultStatuses == {SUCCESS, FAIL_NO_ACCOUNT, FAIL_NOT_ENOUGH_FUNDS, FAIL_INTERNAL}

TopicPaymentRequested == "payments.payment_requested.v1"
TopicPaymentResult == "payments.payment_result.v1"

\* gRPC status codes
OK == "ok"
InvalidArgument == "invalid_argument"
NotFound == "not_found"
AlreadyExists == "already_exists"
FailedPrecondition == "failed_precondition"
Internal == "internal"
NoCode == "none"

VARIABLES
    running,        \* the service this behaviour runs
    \* ---- Orders database (a row's xid names the open transaction that
    \*      inserted it; "" once committed)
    orders,         \* table orders: set of rows
    ordOutbox,      \* table outbox of Orders: set of rows
    ordInbox,       \* table inbox of Orders: bag of message ids
    \* ---- Orders processes
    ow,             \* CreateOrder RPC workers
    resCons,        \* PaymentResult consumer
    ordFirst,       \* per (user_id, key): the first successful CreateOrder response
    ordReply,       \* status code of the response the last step sent (NoCode: none)
    \* ---- Payments database
    accounts,       \* table accounts: user_id -> balance
    ops,            \* table payment_operations: bag of rows
    topupIdem,      \* table topup_idempotency: set of rows
    payInbox,       \* table inbox of Payments: bag of rows
    payOutbox,      \* table outbox of Payments: set of rows
    \* ---- Payments processes
    pw,             \* CreateAccount / TopUp RPC workers
    reqCons,        \* PaymentRequested consumer
    payFirst,       \* per (user_id, key): the first successful TopUp response
    payReply,       \* status code of the response the last step sent (NoCode: none)
    \* ---- the client's view of Payments, kept by the deployment that follows it
    accReply,       \* the CreateAccount response the last step sent
    payMissed,      \* the (user_id, key) a keyed TopUp was answered not_found for
    credited,       \* user_id -> the sum of the top-ups that took effect
    balReply,       \* the GetBalance response the last step sent
    \* ---- the balance cache of Payments
    cache,          \* whether it is enabled, and user_id -> balance of its live entries
    \* ---- the bus
    resLoop,        \* PaymentResultConsumer.Run: its partition, reader and group offset
    reqLoop,        \* PaymentRequestedConsumer.Run: likewise
    pub,            \* OutboxPublisher of Orders
    peer,           \* a second instance of it, on the same outbox
    bus,            \* the messages the bus accepted from the publisher
    \* ---- the reads of Orders
    list,           \* a client of ListOrders: its last call and the orders it was shown
    \* ---- the gateway
    gw,             \* its last request and HTTP status, the RPCs it has sent
    \* ---- the order cache and the clients of GetOrder
    orderCache,     \* whether it is enabled, and order_id -> cached order of its live entries
    gets,           \* the GetOrder calls in progress, the last response, the orders
                    \* a response has shown in a final status
    \* ---- shutdown
    ctx             \* per service: whether the root context is cancelled

vars == <<running, orders, ordOutbox, ordInbox, ow, resCons, ordFirst, ordReply,
          accounts, ops, topupIdem, payInbox, payOutbox, pw, reqCons, payFirst, payReply,
          accReply, payMissed, credited, balReply, cache, resLoop, reqLoop, pub, peer, bus,
          list, gw, orderCache, gets, ctx>>

\* ---------------------------------------------------------------- helpers
\* a fresh identifier (uuid.NewString, gen_random_uuid): one no row holds
Fresh(used) == CHOOSE n \in 1..(Cardinality(used) + 1) : n \notin used

\* rows of table t that are committed
Committed(t) == {r \in t : r.xid = ""}
\* the order ids of rows t
OrderIds(t) == {r.order_id : r \in t}
\* COMMIT of transaction x: its rows become visible
CommitRows(t, x) == {IF r.xid = x THEN [r EXCEPT !.xid = ""] ELSE r : r \in t}
\* ROLLBACK of transaction x: its rows disappear
RollbackRows(t, x) == {r \in t : r.xid # x}

NoReq == [user_id |-> "", key |-> "", amount |-> 0, description |-> ""]
NoOrder == [order_id |-> 0, user_id |-> "", amount |-> 0, description |-> "",
            status |-> "", created_at |-> 0]

\* ------------------------------------------------------- the consumer loop
\* kafka.Reader with a GroupID, on one partition: log holds the partition's
\* messages, pos is the reader's own position (the index FetchMessage hands out
\* next), offset the group's committed offset (the index a new reader starts
\* at), cur the index of the message being handled.
NoLoop == [log |-> <<>>, pos |-> 1, offset |-> 1, pc |-> "off", cur |-> 0]
\* the loop of a starting service over partition log
StartLoop(log) == [log |-> log, pos |-> 1, offset |-> 1, pc |-> "fetch", cur |-> 0]
\* FetchMessage: the next message of the partition, whatever became of the
\* ones before it
FetchMessage(loop) == [loop EXCEPT !.pc = "handle", !.cur = loop.pos, !.pos = loop.pos + 1]
\* the message being handled
Fetched(loop) == loop.log[loop.cur]
\* a loop that commits whatever the handler returns
HandlerReturnedAlwaysCommits(loop, ok) == [loop EXCEPT !.pc = "ack"]
\* handleMessage returned: nil leads to CommitMessages, an error to "continue"
HandlerReturned(loop, ok) ==
    IF loop.pc = "off" THEN loop
    ELSE IF ok THEN [loop EXCEPT !.pc = "ack"]
    ELSE [loop EXCEPT !.pc = "fetch", !.cur = 0]
\* CommitMessages(m) succeeded: the group's offset is the one after m
CommitMessages(loop) == [loop EXCEPT !.pc = "fetch", !.offset = loop.cur + 1, !.cur = 0]
\* FetchMessage failed on a cancelled context: Run returns nil
ReturnNil(loop) == [loop EXCEPT !.pc = "done", !.cur = 0]
\* FetchMessage or CommitMessages failed: Run returns the error, the service stops
StopLoop(loop) == [loop EXCEPT !.pc = "stopped", !.cur = 0]
\* the service starts again: a new reader, from the committed offset
RestartLoop(loop) == [loop EXCEPT !.pc = "fetch", !.pos = loop.offset, !.cur = 0]
\* uuid.Parse
UuidParses(id) == id # BadUuid

\* the partition of a running consumer after the bus accepted a message (the
\* payload as proto.Unmarshal returns it)
Partition(loop, payload) ==
    IF loop.pc = "off" THEN loop
    ELSE [loop EXCEPT !.log = Append(@, [f \in DOMAIN payload \cup {"decodes"} |->
                                            IF f = "decodes" THEN TRUE ELSE payload[f]])]

\* the publisher of Orders with the partition it writes to
Republishing == running = "orders-outbox"
\* the partition, as far as the model follows it, takes n more messages
Room(loop, n) ==
    loop.pc = "off" \/ Len(loop.log) + n <= (IF Republishing THEN OutboxLogLen ELSE LogLen)

\* ================================================================ Orders
\* ---- the SQL of Orders
\* rows holding unique key (user_id, idempotency_key)
OrderKeyRows(t, u, k) == {r \in t : r.user_id = u /\ r.idempotency_key = k}

\* INSERT INTO orders ... VALUES ($1, $2, $3, 'NEW' [, $4]) RETURNING ...: the row.
\* order_id is a fresh uuid; created_at, the insertion instant, is as unique.
InsertedOrder(t, req, x) ==
    LET n == Fresh({r.order_id : r \in t})
    IN [order_id |-> n, user_id |-> req.user_id, amount |-> req.amount,
        description |-> req.description, status |-> StatusNew, created_at |-> n,
        idempotency_key |-> req.key, xid |-> x]

\* CreateOrderIdempotent waits while another open transaction holds the key
CreateOrderIdempotentWaits(t, req, x) ==
    \E r \in OrderKeyRows(t, req.user_id, req.key) : r.xid \notin {"", x}
\* an INSERT that no unique key stops
CreateOrderIdempotentNoConflict(t, req) == FALSE

\* ON CONFLICT (user_id, idempotency_key) DO NOTHING: no row is returned
CreateOrderIdempotentConflict(t, req) ==
    \E r \in OrderKeyRows(t, req.user_id, req.key) : r.xid = ""

\* GetOrderByIdempotency: the committed row of (user_id, idempotency_key)
GetOrderByIdempotency(t, u, k) ==
    CHOOSE r \in OrderKeyRows(t, u, k) : r.xid = ""

\* the UPDATE without "AND status = 'NEW'"
UpdateOrderStatusAlways(t, oid) ==
    {r.order_id : r \in {q \in t : q.order_id = oid /\ q.xid = ""}}

\* UpdateOrderStatusIfNew: the order ids its WHERE clause matches
UpdateOrderStatusIfNew(t, oid) ==
    {r.order_id : r \in {q \in t : q.order_id = oid /\ q.xid = "" /\ q.status = StatusNew}}

\* InsertOutbox of Orders: the row (id from the table's sequence, a fresh event_id)
OrdOutboxRow(t, orderID, req, x) ==
    [id |-> Fresh({r.id : r \in t}),
     topic |-> TopicPaymentRequested,
     kafka_key |-> orderID,
     payload |-> [event_id |-> Fresh({r.payload.event_id : r \in t}),
                  order_id |-> orderID, user_id |-> req.user_id, amount |-> req.amount],
     sent |-> FALSE, attempts |-> 0, last_error |-> "", xid |-> x]

\* ---- Handlers.CreateOrder
\* a validation that accepts an empty description
CreateOrderValidNoDescription(req) == req.user_id # "" /\ req.amount > 0

CreateOrderValid(req) ==
    req.user_id # "" /\ req.amount > 0 /\ req.description # ""

\* the Order message of a response, from a row
OrderBody(r) ==
    [order_id |-> r.order_id, user_id |-> r.user_id, amount |-> r.amount,
     description |-> r.description, status |-> r.status, created_at |-> r.created_at]

\* a replay check that forgets the description
SameOrderAmount(existing, req) == existing.amount = req.amount

\* the replay's check of the stored parameters against the request
SameOrderParams(existing, req) ==
    existing.amount = req.amount /\ existing.description = req.description

\* the requests a client may send.  The two parallel workers serve one user, who
\* varies key, amount and description; beside the consumer, which never reads an
\* order's amount or description, every user orders one product at one price.
OrdRequests ==
    IF running \in {"orders-loop", "orders-publisher", "orders-publishers", "orders-outbox",
                   "orders-cache", "orders-cache-any", "system"}
    THEN [user_id : {"u1"}, key : {""}, amount : {1}, description : {"book"}]
    ELSE IF running = "orders"
    THEN [user_id : Users \cup {""}, key : Keys \cup {""}, amount : 0..1,
          description : {"book", ""}]
    ELSE [user_id : {"u1", ""}, key : Keys \cup {""}, amount : 0..MaxAmount,
          description : Descriptions \cup {""}]

OrdWorkerIdle == [pc |-> "idle", req |-> NoReq, body |-> NoOrder]

\* the deployments of Orders
OrdActive(w) == \/ running = "orders-rpc"
                \/ running \in {"orders", "orders-loop", "orders-publisher",
                                  "orders-publishers", "orders-outbox", "orders-cache",
                                  "orders-cache-any", "system"} /\ w = "w1"
ResActive == running \in {"orders", "orders-loop", "orders-cache", "orders-cache-any", "system"}
\* Orders with its cache, beside clients that read an order
Reading == running \in {"orders-cache", "orders-cache-any"}
\* both services with their publishers and consumers, on one bus
EndToEnd == running = "system"
\* the consumer reads a partition (else it is handed messages by the environment)
ResLooping == running \in {"orders-loop", "system"}

\* the read side of Orders
Edge == <<list, gw, orderCache, gets, ctx>>
\* the write side of Orders, and what carries the events
OrdSide == <<orders, ordOutbox, ordInbox, ow, resCons, ordFirst, ordReply>>
Wire == <<resLoop, reqLoop, pub, peer, bus>>
\* the other service
PaySide == <<accounts, ops, topupIdem, payInbox, payOutbox, pw, reqCons,
             payFirst, payReply, accReply, payMissed, credited, balReply, cache>>
OrdOther == <<running, PaySide, Edge>>
\* what a step of the gRPC server or of a handler transaction of Orders leaves alone
OrdFrame == UNCHANGED <<OrdOther, resLoop, reqLoop, pub, peer, bus>>
\* what a step of the consumer that returns to its loop leaves alone
ResFrame == UNCHANGED <<OrdOther, reqLoop, pub, peer, bus>>

\* (after GracefulStop the server takes no new call)
OrdCanCall(w) == OrdActive(w) /\ ow[w].pc = "idle" /\ ~ctx.orders

\* the RPC returns with status code
OrdDone(w, code) ==
    /\ ow' = [ow EXCEPT ![w] = OrdWorkerIdle]
    /\ ordReply' = code

\* validation fails: no transaction is opened
OrdReject(w) ==
    /\ OrdCanCall(w)
    /\ {req \in OrdRequests : ~CreateOrderValid(req)} # {}
    /\ OrdDone(w, InvalidArgument)
    /\ UNCHANGED <<orders, ordOutbox, ordInbox, resCons, ordFirst>>
    /\ OrdFrame

\* pool.Begin, the INSERT, GetOrderByIdempotency or the Commit of a replay fails:
\* nothing was written
OrdBeginFail(w) ==
    /\ OrdCanCall(w)
    /\ {req \in OrdRequests : CreateOrderValid(req)} # {}
    /\ OrdDone(w, Internal)
    /\ UNCHANGED <<orders, ordOutbox, ordInbox, resCons, ordFirst>>
    /\ OrdFrame

\* Begin, the INSERT (CreateOrder without a key, CreateOrderIdempotent with one)
\* returning the new row, and InsertOutbox of its PaymentRequested
OrdCreate(w) ==
    \E req \in OrdRequests :
        /\ OrdCanCall(w)
        /\ CreateOrderValid(req)
        /\ req.key # "" => /\ ~CreateOrderIdempotentConflict(orders, req)
                           /\ ~CreateOrderIdempotentWaits(orders, req, w)
        /\ Cardinality(orders) < (IF EndToEnd \/ Reading THEN 1 ELSE MaxOrders)
        /\ LET row == InsertedOrder(orders, req, w)
           IN /\ orders' = orders \cup {row}
              /\ ordOutbox' = ordOutbox \cup {OrdOutboxRow(ordOutbox, row.order_id, req, w)}
              /\ ow' = [ow EXCEPT ![w] = [pc |-> "commit", req |-> req, body |-> OrderBody(row)]]
        /\ ordReply' = NoCode
        /\ UNCHANGED <<ordInbox, resCons, ordFirst>>
        /\ OrdFrame

\* the first successful response recorded for (u, k), if any
FirstOf(first, u, k) == {f \in first : f.user_id = u /\ f.key = k}
RecordFirst(first, req, body) ==
    IF req.key = "" \/ FirstOf(first, req.user_id, req.key) # {} THEN first
    ELSE first \cup {[user_id |-> req.user_id, key |-> req.key, body |-> body]}

\* CreateOrderIdempotent returns pgx.ErrNoRows: the existing order is loaded and
\* compared with the request; a match is answered from the row (nothing to
\* commit), a mismatch with FailedPrecondition
OrdReplay(w) ==
    \E req \in OrdRequests :
        /\ OrdCanCall(w)
        /\ CreateOrderValid(req)
        /\ req.key # ""
        /\ CreateOrderIdempotentConflict(orders, req)
        /\ LET existing == GetOrderByIdempotency(orders, req.user_id, req.key)
           IN IF SameOrderParams(existing, req)
              THEN /\ ow' = [ow EXCEPT ![w] = [pc |-> "reply", req |-> req,
                                               body |-> OrderBody(existing)]]
                   /\ ordReply' = NoCode
              ELSE OrdDone(w, FailedPrecondition)
        /\ UNCHANGED <<orders, ordOutbox, ordInbox, resCons, ordFirst>>
        /\ OrdFrame

\* tx.Commit succeeds: the rows become visible and the response is sent
OrdCommit(w) ==
    /\ OrdActive(w) /\ ow[w].pc \in {"commit", "reply"}
    /\ orders' = CommitRows(orders, w)
    /\ ordOutbox' = CommitRows(ordOutbox, w)
    /\ ordFirst' = RecordFirst(ordFirst, ow[w].req, ow[w].body)
    /\ OrdDone(w, OK)
    /\ UNCHANGED <<ordInbox, resCons>>
    /\ OrdFrame

\* a failure path that rolls back the order but leaves the outbox row behind
OrdFailKeepsOutbox(w) ==
    /\ OrdActive(w) /\ ow[w].pc \in {"commit", "reply"}
    /\ orders' = RollbackRows(orders, w)
    /\ ordOutbox' = CommitRows(ordOutbox, w)
    /\ OrdDone(w, Internal)
    /\ UNCHANGED <<ordInbox, resCons, ordFirst>>
    /\ OrdFrame

\* InsertOutbox or Commit fails (database error, deadline): WithTx rolls back
OrdFail(w) ==
    /\ OrdActive(w) /\ ow[w].pc \in {"commit", "reply"}
    /\ orders' = RollbackRows(orders, w)
    /\ ordOutbox' = RollbackRows(ordOutbox, w)
    /\ OrdDone(w, Internal)
    /\ UNCHANGED <<ordInbox, resCons, ordFirst>>
    /\ OrdFrame

\* ---- PaymentResultConsumer.handleMessage
\* (decodes: whether proto.Unmarshal accepts the payload)
ResultMessages ==
    IF EndToEnd \/ Reading
    THEN [event_id : {1}, order_id : {1}, status : ResultStatuses, decodes : {TRUE}]
    ELSE IF ResLooping
    THEN [event_id : EventIds, order_id : {1}, status : ResultStatuses \cup {"UNSPECIFIED"},
          decodes : {TRUE}]
         \cup {[event_id |-> BadUuid, order_id |-> 1, status |-> SUCCESS, decodes |-> TRUE],
                [event_id |-> 101, order_id |-> BadUuid, status |-> SUCCESS, decodes |-> TRUE],
                [event_id |-> BadUuid, order_id |-> BadUuid, status |-> "UNSPECIFIED",
                 decodes |-> FALSE]}
    ELSE [event_id : EventIds, order_id : 1..MaxOrders, status : ResultStatuses,
          decodes : {TRUE}]

\* a check that parses no identifier
PaymentResultValidUnparsed(m) == m.decodes

\* the payload decodes and event_id and order_id parse as UUIDs
PaymentResultValid(m) == m.decodes /\ UuidParses(m.event_id) /\ UuidParses(m.order_id)

\* the message handleMessage is called with
ResDelivered(m) == IF ResLooping THEN resLoop.pc = "handle" /\ m = Fetched(resLoop) ELSE TRUE

\* a mapping that cancels only on the failures it knows
NewStatusKnownFailures(status) ==
    IF status \in ResultStatuses \ {SUCCESS} THEN StatusCancelled ELSE StatusFinished

\* SUCCESS -> FINISHED, anything else -> CANCELLED
\* a mapping that finishes the order on every result
NewStatusFinishes(status) == StatusFinished

NewStatus(status) == IF status = SUCCESS THEN StatusFinished ELSE StatusCancelled

ResIdle == [pc |-> "idle", msgID |-> 0, orderID |-> 0, newStatus |-> "", inserted |-> 0, upd |-> {}]

\* InsertInboxCheck of Orders: 1 when the message id is new, else 0
OrdInsertInboxCheck(t, msgID) == IF BagIn(msgID, t) THEN 0 ELSE 1

\* a handler that ignores the inbox verdict
ResNeverProcessed(inserted) == FALSE

\* inserted == 0: the handler returns without touching the order
ResAlreadyProcessed(inserted) == inserted = 0

\* the message is parsed, the transaction begun, InsertInboxCheck and, for a new
\* message, UpdateOrderStatusIfNew run
ResHandle ==
    \E m \in ResultMessages :
        /\ ResActive /\ resCons.pc = "idle" /\ ~ctx.orders
        /\ ResDelivered(m) /\ PaymentResultValid(m)
        /\ LET inserted == OrdInsertInboxCheck(ordInbox, m.event_id)
           IN resCons' = [pc |-> "commit", msgID |-> m.event_id, orderID |-> m.order_id,
                          newStatus |-> NewStatus(m.status), inserted |-> inserted,
                          upd |-> IF ResAlreadyProcessed(inserted) THEN {}
                                  ELSE UpdateOrderStatusIfNew(orders, m.order_id)]
        /\ ordReply' = NoCode
        /\ UNCHANGED <<orders, ordOutbox, ordInbox, ow, ordFirst>>
        /\ OrdFrame

\* tx.Commit succeeds
ResCommit ==
    /\ ResActive /\ resCons.pc = "commit" /\ ~ctx.orders
    /\ ordInbox' = IF resCons.inserted = 1 THEN ordInbox (+) SetToBag({resCons.msgID})
                                            ELSE ordInbox
    /\ orders' = {IF r.order_id \in resCons.upd
                  THEN [r EXCEPT !.status = resCons.newStatus] ELSE r : r \in orders}
    /\ resCons' = ResIdle
    /\ resLoop' = HandlerReturned(resLoop, TRUE)
    /\ ordReply' = NoCode
    /\ UNCHANGED <<ordOutbox, ow, ordFirst>>
    /\ ResFrame

\* an abort after which the inbox row stays
ResFailKeepsInbox ==
    /\ ResActive /\ resCons.pc = "commit"
    /\ ordInbox' = IF resCons.inserted = 1 THEN ordInbox (+) SetToBag({resCons.msgID})
                                            ELSE ordInbox
    /\ resCons' = ResIdle
    /\ resLoop' = HandlerReturned(resLoop, FALSE)
    /\ ordReply' = NoCode
    /\ UNCHANGED <<orders, ordOutbox, ow, ordFirst>>
    /\ ResFrame

\* a statement or Commit fails: rollback, the handler returns the error
ResFail ==
    /\ ResActive /\ resCons.pc = "commit"
    /\ resCons' = ResIdle
    /\ resLoop' = HandlerReturned(resLoop, FALSE)
    /\ ordReply' = NoCode
    /\ UNCHANGED <<orders, ordOutbox, ordInbox, ow, ordFirst>>
    /\ ResFrame

\* ---- PaymentResultConsumer.Run
\* what a step of the loop outside the handler transaction leaves alone
ResLoopFrame ==
    /\ ordReply' = NoCode
    /\ UNCHANGED <<orders, ordOutbox, ordInbox, ow, resCons, ordFirst>>
    /\ ResFrame

\* FetchMessage returns the next message
ResFetch ==
    /\ ResLooping /\ resLoop.pc = "fetch"
    /\ resLoop.pos <= Len(resLoop.log)
    /\ resLoop' = FetchMessage(resLoop)
    /\ ResLoopFrame

\* a payload that does not decode, or whose event_id or order_id is no UUID:
\* handleMessage returns nil before any transaction
ResDrop ==
    /\ ResLooping /\ resLoop.pc = "handle" /\ resCons.pc = "idle"
    /\ ~PaymentResultValid(Fetched(resLoop))
    /\ resLoop' = HandlerReturned(resLoop, TRUE)
    /\ ResLoopFrame

\* CommitMessages succeeds
ResAck ==
    /\ ResLooping /\ resLoop.pc = "ack"
    /\ resLoop' = CommitMessages(resLoop)
    /\ ResLoopFrame

\* the context is cancelled while Run is in FetchMessage: Run returns nil
ResDone ==
    /\ ResLooping /\ resLoop.pc = "fetch" /\ ctx.orders
    /\ resLoop' = ReturnNil(resLoop)
    /\ ResLoopFrame

\* the context is cancelled before the handler's Begin, which fails:
\* handleMessage returns the error
ResBeginFail ==
    /\ ResLooping /\ resLoop.pc = "handle" /\ resCons.pc = "idle" /\ ctx.orders
    /\ resLoop' = HandlerReturned(resLoop, FALSE)
    /\ ResLoopFrame

\* FetchMessage or CommitMessages fails: Run returns the error and the service
\* stops (a FetchMessage that fails on a cancelled context is ResDone)
ResStop ==
    /\ ResLooping /\ resLoop.pc \in {"fetch", "ack"}
    /\ resLoop.pc = "ack" \/ ~ctx.orders
    /\ resLoop' = StopLoop(resLoop)
    /\ ResLoopFrame

\* the service is started again
ResRestart ==
    /\ ResLooping /\ resLoop.pc = "stopped"
    /\ resLoop' = RestartLoop(resLoop)
    /\ ResLoopFrame

\* the bus appends a message to the partition: any PaymentResult that names a
\* committed order (an order_id is a fresh UUID, which nobody knows before the
\* order is committed) or carries no UUID at all
ResProduce ==
    \E m \in ResultMessages :
        /\ ResLooping /\ Len(resLoop.log) < LogLen
        /\ m.order_id \in OrderIds(Committed(orders)) \cup {BadUuid}
        /\ resLoop' = [resLoop EXCEPT !.log = Append(resLoop.log, m)]
        /\ ResLoopFrame

\* ---- OutboxPublisher
Publishers == {"p1", "p2"}

\* the instances a deployment runs
PubActive(p) == \/ running \in {"orders-publisher", "orders-outbox", "system"} /\ p = "p1"
                \/ running = "orders-publishers"

\* (rows: the ids the pass locked, oldest first; i: the row it is at; sent,
\* failed: the rows its transaction has marked)
PubIdle == [pc |-> "idle", rows |-> <<>>, i |-> 0, sent |-> {}, failed |-> {}]

\* the state of instance p, and of the other one
Pass(p) == IF p = "p1" THEN pub ELSE peer
OtherPass(p) == IF p = "p1" THEN peer ELSE pub

\* the rows a pass holds locked
Held(q) == {q.rows[k] : k \in 1..Len(q.rows)}

\* ids in ascending order
RECURSIVE Ascending(_)
Ascending(ids) ==
    IF ids = {} THEN <<>>
    ELSE LET m == CHOOSE x \in ids : \A y \in ids : x <= y
         IN <<m>> \o Ascending(ids \ {m})

\* the first batch of a sequence
Limit(seq, batch) == SubSeq(seq, 1, IF Len(seq) < batch THEN Len(seq) ELSE batch)

\* a selection that gives up a row after a failed attempt
LockUnsentOutboxFresh(t, locked, batch) ==
    Limit(Ascending({r.id : r \in {q \in Committed(t) :
                                     ~q.sent /\ q.attempts = 0 /\ q.id \notin locked}}), batch)

\* a selection that does not look at sent_at
LockOutboxAny(t, locked, batch) ==
    Limit(Ascending({r.id : r \in {q \in Committed(t) : q.id \notin locked}}), batch)

\* a selection that does not skip the rows another pass holds
LockUnsentOutboxNoSkip(t, locked, batch) ==
    Limit(Ascending({r.id : r \in {q \in Committed(t) : ~q.sent}}), batch)

\* LockUnsentOutbox: the ids of up to batch committed rows without sent_at that
\* no other transaction holds locked, oldest first
LockUnsentOutbox(t, locked, batch) ==
    Limit(Ascending({r.id : r \in {q \in Committed(t) : ~q.sent /\ q.id \notin locked}}), batch)

\* the row of id
OutboxRowById(t, id) == CHOOSE r \in t : r.id = id

\* kafka.Message{Key: []byte(r.KafkaKey), Value: r.Payload}
OutboxMessage(r) == [key |-> r.kafka_key, value |-> r.payload]

\* MarkOutboxSent, in the pass's transaction
MarkOutboxSent(p, id) == [p EXCEPT !.sent = @ \cup {id}]

\* a failure branch that marks the row sent
MarkOutboxAttemptFailedAsSent(p, id) == MarkOutboxSent(p, id)

\* MarkOutboxAttemptFailed, in the pass's transaction
MarkOutboxAttemptFailed(p, id) == [p EXCEPT !.failed = @ \cup {id}]

\* a commit that drops the sent marks of a pass in which a publish failed
PublishedOutboxUndoesSent(t, p) ==
    {IF r.id \in p.failed THEN [r EXCEPT !.attempts = @ + 1, !.last_error = "write failed"]
     ELSE IF r.id \in p.sent /\ p.failed = {} THEN [r EXCEPT !.sent = TRUE]
     ELSE r : r \in t}

\* the outbox once the pass's transaction has committed
PublishedOutbox(t, p) ==
    {IF r.id \in p.sent THEN [r EXCEPT !.sent = TRUE]
     ELSE IF r.id \in p.failed
          THEN [r EXCEPT !.attempts = @ + 1, !.last_error = "write failed"]
     ELSE r : r \in t}

\* WriteMessages succeeds: the bus has accepted the message
WriteMessages(m) ==
    /\ bus' = bus \cup {m}
    /\ reqLoop' = Partition(reqLoop, m.value)

\* instance p moves to q; what a step of the publisher leaves alone
PubFrame(p, q) ==
    /\ IF p = "p1" THEN pub' = q /\ peer' = peer ELSE peer' = q /\ pub' = pub
    /\ ordReply' = NoCode
    /\ UNCHANGED <<orders, ordInbox, ow, resCons, ordFirst>>
    /\ UNCHANGED <<OrdOther, resLoop>>

\* the tick: Begin and LockUnsentOutbox find unsent rows
PubLock(p) ==
    /\ ~ctx.orders
    /\ PubActive(p) /\ Pass(p).pc = "idle"
    /\ LockUnsentOutbox(ordOutbox, Held(OtherPass(p)), Batch) # <<>>
    /\ PubFrame(p, [PubIdle EXCEPT !.pc = "publish", !.i = 1,
                       !.rows = LockUnsentOutbox(ordOutbox, Held(OtherPass(p)), Batch)])
    /\ UNCHANGED <<ordOutbox, bus, reqLoop>>

\* WriteMessages succeeds for the row the pass is at, and so does MarkOutboxSent
PubSend(p) ==
    /\ ~ctx.orders
    /\ PubActive(p) /\ Pass(p).pc = "publish" /\ Pass(p).i <= Len(Pass(p).rows)
    /\ Room(reqLoop, 1)
    /\ WriteMessages(OutboxMessage(OutboxRowById(ordOutbox, Pass(p).rows[Pass(p).i])))
    /\ PubFrame(p, [MarkOutboxSent(Pass(p), Pass(p).rows[Pass(p).i]) EXCEPT !.i = @ + 1])
    /\ UNCHANGED ordOutbox

\* WriteMessages fails: MarkOutboxAttemptFailed, and the pass goes on
PubSendFail(p) ==
    /\ ~ctx.orders
    /\ PubActive(p) /\ Pass(p).pc = "publish" /\ Pass(p).i <= Len(Pass(p).rows)
    /\ OutboxRowById(ordOutbox, Pass(p).rows[Pass(p).i]).attempts < MaxAttempts
    /\ PubFrame(p, [MarkOutboxAttemptFailed(Pass(p), Pass(p).rows[Pass(p).i])
                       EXCEPT !.i = @ + 1])
    /\ UNCHANGED <<ordOutbox, bus, reqLoop>>

\* a failed MarkOutboxSent after which the marks made so far are committed
PubMarkFailCommits(p) ==
    /\ ~ctx.orders
    /\ PubActive(p) /\ Pass(p).pc = "publish" /\ Pass(p).i <= Len(Pass(p).rows)
    /\ Room(reqLoop, 2)
    /\ WriteMessages(OutboxMessage(OutboxRowById(ordOutbox, Pass(p).rows[Pass(p).i])))
    /\ PubFrame(p, PubIdle)
    /\ ordOutbox' = PublishedOutbox(ordOutbox, Pass(p))

\* WriteMessages succeeds and MarkOutboxSent fails: publishOnce returns the
\* error and WithTx rolls back; the message is on the bus
PubMarkFail(p) ==
    /\ ~ctx.orders
    /\ PubActive(p) /\ Pass(p).pc = "publish" /\ Pass(p).i <= Len(Pass(p).rows)
    /\ Room(reqLoop, 2)
    /\ WriteMessages(OutboxMessage(OutboxRowById(ordOutbox, Pass(p).rows[Pass(p).i])))
    /\ PubFrame(p, PubIdle)
    /\ UNCHANGED ordOutbox

\* the rows are done and Commit succeeds
PubCommit(p) ==
    /\ ~ctx.orders
    /\ PubActive(p) /\ Pass(p).pc = "publish" /\ Pass(p).i > Len(Pass(p).rows)
    /\ ordOutbox' = PublishedOutbox(ordOutbox, Pass(p))
    /\ PubFrame(p, PubIdle)
    /\ UNCHANGED <<bus, reqLoop>>

\* a failed pass that ends Run
PubAbortStops(p) ==
    /\ PubActive(p) /\ Pass(p).pc = "publish"
    /\ PubFrame(p, [PubIdle EXCEPT !.pc = "stopped"])
    /\ UNCHANGED <<ordOutbox, bus, reqLoop>>

\* Commit fails, or the database does at any statement: rollback; Run logs the
\* error and waits for the next tick
PubAbort(p) ==
    /\ PubActive(p) /\ Pass(p).pc = "publish"
    /\ ctx.orders \/ Pass(p).sent = {} \/ Room(reqLoop, 1)
    /\ PubFrame(p, PubIdle)
    /\ UNCHANGED <<ordOutbox, bus, reqLoop>>

\* the context is cancelled while Run waits for the tick
PubStop(p) ==
    /\ PubActive(p) /\ Pass(p).pc = "idle"
    /\ EndToEnd => ctx.orders
    /\ PubFrame(p, [PubIdle EXCEPT !.pc = "stopped"])
    /\ UNCHANGED <<ordOutbox, bus, reqLoop>>

\* ============================================================== gateway
\* strings are sequences of characters; a header that is absent reads ""
RECURSIVE TrimLeft(_)
TrimLeft(str) == IF str # <<>> /\ str[1] \in {" ", "\t"} THEN TrimLeft(Tail(str)) ELSE str
RECURSIVE TrimRight(_)
TrimRight(str) ==
    IF str # <<>> /\ str[Len(str)] \in {" ", "\t"}
    THEN TrimRight(SubSeq(str, 1, Len(str) - 1)) ELSE str
\* a check of the header that does not trim
TrimNothing(str) == str
\* strings.TrimSpace
TrimSpace(str) == TrimRight(TrimLeft(str))
\* strings.HasPrefix
HasPrefix(str, prefix) ==
    Len(str) >= Len(prefix) /\ SubSeq(str, 1, Len(prefix)) = prefix

\* cfg.BasePath ("/api/v1"), as its segments
BasePath == <<"api", "v1">>
\* HTTP status codes
StatusOK == 200
StatusCreated == 201
StatusBadRequest == 400
StatusNotFound == 404
StatusMethodNotAllowed == 405
StatusConflict == 409
StatusInternalServerError == 500

\* the requests a client may send: Idempotency-Key absent or empty, blank, or a
\* key (with a leading space or without); the amount of the body
KeyHeaders == {<<>>, <<" ">>, <<"k">>, <<" ", "k">>}
GwPaths == {BasePath \o <<"orders">>, BasePath \o <<"payments", "account">>,
            BasePath \o <<"payments", "account", "topup">>, <<"health">>}
GwRequests == [method : {"GET", "POST"}, path : GwPaths, key : KeyHeaders, amount : 0..1]
NoGwReq == [method |-> "", path |-> <<>>, key |-> <<>>, amount |-> 0]
GwIdle == [req |-> NoGwReq, status |-> 0, calls |-> {}]

Gateway == running = "gateway"

\* the middleware stops the request
KeyRequired(req) ==
    /\ req.method = "POST" /\ HasPrefix(req.path, BasePath)
    /\ TrimSpace(req.key) = <<>>

\* the operation the router finds for the request ("" if none for the path,
\* "-" if the path has none for the method)
Route(req) ==
    LET rest == IF HasPrefix(req.path, BasePath)
                THEN SubSeq(req.path, Len(BasePath) + 1, Len(req.path)) ELSE <<"">>
    IN IF req.path = <<"health">> THEN IF req.method = "GET" THEN "health" ELSE "-"
       ELSE IF rest = <<"orders">>
       THEN IF req.method = "POST" THEN "CreateOrder" ELSE "ListOrders"
       ELSE IF rest = <<"payments", "account">>
       THEN IF req.method = "POST" THEN "CreateAccount" ELSE "-"
       ELSE IF rest = <<"payments", "account", "topup">>
       THEN IF req.method = "POST" THEN "TopUp" ELSE "-"
       ELSE ""

\* the handler rejects the body: CreateOrder and TopUp want amount > 0
BodyRejected(op, req) == op \in {"CreateOrder", "TopUp"} /\ req.amount <= 0

\* grpcCodeToStatus, and the status of a call that succeeded
grpcCodeToStatus(op, code) ==
    IF code = OK THEN IF op \in {"CreateOrder", "CreateAccount"} THEN StatusCreated
                      ELSE StatusOK
    ELSE IF code \in {InvalidArgument, FailedPrecondition} THEN StatusBadRequest
    ELSE IF code = NotFound THEN StatusNotFound
    ELSE IF code = AlreadyExists THEN StatusConflict
    ELSE StatusInternalServerError

\* the RPC a handler sends for the request
GwCall(op, req) == [rpc |-> op, key |-> IF req.method = "POST" THEN req.key ELSE <<>>]

\* one request through the middleware, the router and the handler, which
\* sends one RPC and maps its status code
GwServe ==
    \E req \in GwRequests :
        /\ Gateway
        /\ LET op == Route(req)
           IN IF KeyRequired(req)
              THEN gw' = [req |-> req, status |-> StatusBadRequest, calls |-> gw.calls]
              ELSE IF op = "" THEN gw' = [gw EXCEPT !.req = req, !.status = StatusNotFound]
              ELSE IF op = "-"
              THEN gw' = [gw EXCEPT !.req = req, !.status = StatusMethodNotAllowed]
              ELSE IF op = "health" THEN gw' = [gw EXCEPT !.req = req, !.status = StatusOK]
              ELSE IF BodyRejected(op, req)
              THEN gw' = [gw EXCEPT !.req = req, !.status = StatusBadRequest]
              ELSE \E code \in {OK, InvalidArgument, NotFound, AlreadyExists,
                                  FailedPrecondition, Internal} :
                       gw' = [req |-> req, status |-> grpcCodeToStatus(op, code),
                              calls |-> gw.calls \cup {GwCall(op, req)}]
        /\ UNCHANGED <<running, OrdSide, PaySide, Wire, list, orderCache, gets, ctx>>

NextGateway == GwServe

\* ================================================================ Orders, reads
\* ---- Handlers.ListOrders
\* strconv.Itoa: the decimal digits of n as bytes, '-' first if negative
RECURSIVE Digits(_)
Digits(n) == IF n < 10 THEN <<48 + n>> ELSE Digits(n \div 10) \o <<48 + (n % 10)>>
Itoa(n) == IF n < 0 THEN <<45>> \o Digits(-n) ELSE Digits(n)

\* strconv.Atoi: an optional sign and at least one digit, nothing else
RECURSIVE Number(_)
Number(b) == IF b = <<>> THEN 0 ELSE 10 * Number(SubSeq(b, 1, Len(b) - 1)) + (b[Len(b)] - 48)
Atoi(b) ==
    LET signed == b # <<>> /\ b[1] \in {43, 45}
        d == IF signed THEN Tail(b) ELSE b
    IN IF d = <<>> \/ \E i \in 1..Len(d) : d[i] \notin 48..57
       THEN [ok |-> FALSE, n |-> 0]
       ELSE [ok |-> TRUE, n |-> IF signed /\ b[1] = 45 THEN -Number(d) ELSE Number(d)]

\* base64.StdEncoding: a string is the sequence of its characters' 6-bit values,
\* Pad for '='
Pad == 64
RECURSIVE EncodeToString(_)
EncodeToString(b) ==
    IF b = <<>> THEN <<>>
    ELSE IF Len(b) = 1 THEN <<b[1] \div 4, (b[1] % 4) * 16, Pad, Pad>>
    ELSE IF Len(b) = 2
    THEN <<b[1] \div 4, (b[1] % 4) * 16 + b[2] \div 16, (b[2] % 16) * 4, Pad>>
    ELSE <<b[1] \div 4, (b[1] % 4) * 16 + b[2] \div 16, (b[2] % 16) * 4 + b[3] \div 64,
           b[3] % 64>> \o EncodeToString(SubSeq(b, 4, Len(b)))

\* the bytes of one quantum of four characters
Quantum(q) ==
    <<q[1] * 4 + q[2] \div 16>>
    \o (IF q[3] = Pad THEN <<>> ELSE <<(q[2] % 16) * 16 + q[3] \div 4>>)
    \o (IF q[4] = Pad THEN <<>> ELSE <<(q[3] % 4) * 64 + q[4]>>)
RECURSIVE DecodeQuanta(_)
DecodeQuanta(s) ==
    IF s = <<>> THEN <<>> ELSE Quantum(SubSeq(s, 1, 4)) \o DecodeQuanta(SubSeq(s, 5, Len(s)))
\* DecodeString: CorruptInputError unless the length is a multiple of four and
\* padding stands only at the end of the last quantum
DecodeString(s) ==
    IF \/ Len(s) % 4 # 0
       \/ \E i \in 1..Len(s) : s[i] \notin 0..Pad
       \/ \E i \in 1..Len(s) : s[i] = Pad /\ i < Len(s) - 1
       \/ Len(s) > 0 /\ s[Len(s) - 1] = Pad /\ s[Len(s)] # Pad
    THEN [ok |-> FALSE, b |-> <<>>]
    ELSE [ok |-> TRUE, b |-> DecodeQuanta(s)]

encodeOffset(n) == EncodeToString(Itoa(n))
decodeOffset(s) ==
    LET b == DecodeString(s)
    IN IF b.ok THEN Atoi(b.b) ELSE [ok |-> FALSE, n |-> 0]

\* the token of the next page, were the handler to forget where this page began
NextOffsetFromStart(offset, limit) == limit
\* offset + limit
NextOffset(offset, limit) == offset + limit

\* the effective limit of a request
EffectiveLimit(limit) == IF limit > 0 THEN limit ELSE DefaultLimit

\* ORDER BY created_at DESC, order_id DESC
Before(a, b) ==
    a.created_at > b.created_at \/ (a.created_at = b.created_at /\ a.order_id > b.order_id)
RECURSIVE Ordered(_)
Ordered(rows) ==
    IF rows = {} THEN <<>>
    ELSE LET first == CHOOSE a \in rows : \A b \in rows \ {a} : Before(a, b)
         IN <<first>> \o Ordered(rows \ {first})
\* SELECT ... FROM orders WHERE user_id = $1 ORDER BY ... LIMIT $2 OFFSET $3
ListOrdersRows(t, u, limit, offset) ==
    LET q == Ordered({r \in Committed(t) : r.user_id = u})
        last == IF Len(q) - offset < limit THEN Len(q) ELSE offset + limit
    IN SubSeq(q, offset + 1, last)

\* tokens no response carried: not base64, base64 of a word, base64 of "-1"
BadTokens == {<<Pad>>, EncodeToString(<<120>>), encodeOffset(-1)}

NoListReq == [user_id |-> "", limit |-> 0, page_token |-> <<>>]
NoListReply == [code |-> NoCode, orders |-> <<>>, next_page_token |-> <<>>]
ListIdle == [req |-> NoListReq, reply |-> NoListReply, seen |-> <<>>, walking |-> FALSE]

Listing == running = "orders-list"

\* the requests a client may send: a first page, the page its last response
\* pointed to, or a token of its own
ListRequests ==
    [user_id : Users \cup {""}, limit : Limits, page_token : {<<>>} \cup BadTokens]
    \cup (IF list.reply.next_page_token = <<>> THEN {}
          ELSE {[list.req EXCEPT !.page_token = list.reply.next_page_token]})

\* the response of the handler to req
ListResponse(req) ==
    LET limit == EffectiveLimit(req.limit)
        n == IF req.page_token # <<>> THEN decodeOffset(req.page_token)
             ELSE [ok |-> TRUE, n |-> 0]
        rows == ListOrdersRows(orders, req.user_id, limit, n.n)
    IN IF req.user_id = "" THEN [NoListReply EXCEPT !.code = InvalidArgument]
       ELSE IF ~n.ok THEN [NoListReply EXCEPT !.code = InvalidArgument]
       ELSE IF n.n < 0 THEN [NoListReply EXCEPT !.code = Internal]
       ELSE [code |-> OK,
             orders |-> [i \in 1..Len(rows) |-> rows[i].order_id],
             next_page_token |-> IF Len(rows) = limit
                                 THEN encodeOffset(NextOffset(n.n, limit)) ELSE <<>>]

\* what the client has been shown since it asked for the first page
Shown(req, reply) ==
    IF reply.code # OK THEN ListIdle
    ELSE IF req.page_token = <<>>
    THEN [req |-> req, reply |-> reply, seen |-> reply.orders, walking |-> TRUE]
    ELSE IF list.walking /\ req = [list.req EXCEPT !.page_token = list.reply.next_page_token]
    THEN [req |-> req, reply |-> reply, seen |-> list.seen \o reply.orders, walking |-> TRUE]
    ELSE [req |-> req, reply |-> reply, seen |-> <<>>, walking |-> FALSE]

\* ListOrders: one SELECT outside any transaction
OrdListOrders ==
    \E req \in ListRequests :
        /\ Listing
        /\ list' = Shown(req, ListResponse(req))
        /\ ordReply' = ListResponse(req).code
        /\ UNCHANGED <<orders, ordOutbox, ordInbox, ow, resCons, ordFirst>>
        /\ UNCHANGED <<running, PaySide, Wire, gw, orderCache, gets, ctx>>

\* the query fails
OrdListOrdersFail ==
    /\ Listing
    /\ {req \in ListRequests : req.user_id # ""} # {}
    /\ list' = ListIdle
    /\ ordReply' = Internal
    /\ UNCHANGED <<orders, ordOutbox, ordInbox, ow, resCons, ordFirst>>
    /\ UNCHANGED <<running, PaySide, Wire, gw, orderCache, gets, ctx>>

\* ---- OrderCache
\* NewOrderCache: nil without a client
NoOrderCache == [on |-> FALSE, entries |-> [o \in {} |-> 0]]
NewOrderCache(enabled) == [NoOrderCache EXCEPT !.on = enabled]

\* Get: the live entry of the order, if the cache is enabled and holds one
OrderCacheHit(c, oid) == c.on /\ oid \in DOMAIN c.entries

\* Set: the entry of the order becomes the row as read
OrderCacheSet(c, row) ==
    [c EXCEPT !.entries = [o \in DOMAIN c.entries \cup {row.order_id} |->
                              IF o = row.order_id THEN OrderBody(row) ELSE c.entries[o]]]

\* the cache after h.cache.Set, whose error is logged and dropped
OrderCacheWrites(c, row) == IF c.on THEN {OrderCacheSet(c, row), c} ELSE {c}

\* an enabled cache holding whatever: nothing, or for order 1 an entry of any
\* user in any status
OrderCaches ==
    {NewOrderCache(TRUE)}
    \cup {OrderCacheSet(NewOrderCache(TRUE), [NoOrder EXCEPT !.order_id = 1, !.user_id = u,
                                                             !.status = st])
           : u \in ReadUsers, st \in {StatusNew, StatusFinished, StatusCancelled}}

\* ---- Handlers.GetOrder
\* a lookup by order_id alone
GetOrderOfAnyUser(t, oid, u) == {r \in Committed(t) : r.order_id = oid}

\* SELECT ... WHERE order_id = $1 AND user_id = $2
GetOrder(t, oid, u) == {r \in Committed(t) : r.order_id = oid /\ r.user_id = u}

mapOrderStatus(st) ==
    IF st \in {StatusNew, StatusFinished, StatusCancelled} THEN st ELSE "UNSPECIFIED"

\* the Order message of a GetOrder response
GetOrderBody(o) == [o EXCEPT !.status = mapOrderStatus(o.status)]

\* the requests: the order_id "" is written 0 - 1
NoOrderId == 0 - 1
GetRequests == [user_id : ReadUsers \cup {""}, order_id : {1, BadUuid, NoOrderId}]
GetOrderValid(req) ==
    req.user_id # "" /\ req.order_id # NoOrderId /\ UuidParses(req.order_id)

NoGetReq == [user_id |-> "", order_id |-> 0]
\* (late: the call began after a response had shown its order in a final status)
NoGetReply == [req |-> NoGetReq, code |-> NoCode, order |-> NoOrder, late |-> FALSE]
GetIdle == [pc |-> "idle", req |-> NoGetReq, row |-> NoOrder, late |-> FALSE]
GetsIdle == [calls |-> [g \in Getters |-> GetIdle], reply |-> NoGetReply, final |-> {}]

\* call g returns code and order: the response is kept, and so is the order
\* once it was shown FINISHED or CANCELLED
Answer(g, req, code, order, late) ==
    [calls |-> [gets.calls EXCEPT ![g] = GetIdle],
     reply |-> [req |-> req, code |-> code, order |-> order, late |-> late],
     final |-> IF code = OK /\ order.status \in {StatusFinished, StatusCancelled}
               THEN gets.final \cup {order.order_id} ELSE gets.final]

GetFrame ==
    /\ UNCHANGED <<running, OrdSide, PaySide, Wire, list, gw, ctx>>

\* GetOrder up to the cache read: validation; on a hit of an entry of the
\* requesting user the response from the entry; else (no entry, an error of
\* Get, an entry of another user, no cache) on to the database
OrdGetOrder(g) ==
    \E req \in GetRequests, hit \in BOOLEAN :
        /\ Reading /\ ~ctx.orders /\ gets.calls[g].pc = "idle"
        /\ hit => GetOrderValid(req) /\ OrderCacheHit(orderCache, req.order_id)
        /\ LET late == req.order_id \in gets.final
           IN gets' =
                IF ~GetOrderValid(req) THEN Answer(g, req, InvalidArgument, NoOrder, late)
                ELSE IF hit /\ orderCache.entries[req.order_id].user_id = req.user_id
                THEN Answer(g, req, OK, GetOrderBody(orderCache.entries[req.order_id]), late)
                ELSE [gets EXCEPT !.calls[g] = [pc |-> "query", req |-> req,
                                                row |-> NoOrder, late |-> late]]
        /\ orderCache' = orderCache
        /\ GetFrame

\* the query: no row of the user, or an error, gives NotFound
OrdGetOrderQuery(g) ==
    \E ok \in BOOLEAN :
        /\ Reading /\ gets.calls[g].pc = "query"
        /\ LET req == gets.calls[g].req
               rows == GetOrder(orders, req.order_id, req.user_id)
           IN gets' = IF ok /\ rows # {}
                      THEN [gets EXCEPT !.calls[g].pc = "set",
                                        !.calls[g].row = OrderBody(CHOOSE r \in rows : TRUE)]
                      ELSE Answer(g, req, NotFound, NoOrder, gets.calls[g].late)
        /\ orderCache' = orderCache
        /\ GetFrame

\* h.cache.Set with the row as read, and the response from it
OrdGetOrderSet(g) ==
    /\ Reading /\ gets.calls[g].pc = "set"
    /\ orderCache' \in OrderCacheWrites(orderCache, gets.calls[g].row)
    /\ gets' = Answer(g, gets.calls[g].req, OK, GetOrderBody(gets.calls[g].row),
                      gets.calls[g].late)
    /\ GetFrame

\* an entry of the cache reaches its ttl
OrderCacheExpire ==
    \E oid \in DOMAIN orderCache.entries :
        /\ Reading
        /\ orderCache' = [orderCache EXCEPT !.entries =
                             [o \in DOMAIN orderCache.entries \ {oid} |-> orderCache.entries[o]]]
        /\ gets' = gets
        /\ GetFrame

\* the committed table holding order i of user who[i], created at at[i]
ListTable(k, who, at) ==
    {[order_id |-> i, user_id |-> who[i], amount |-> 1, description |-> "book",
      status |-> StatusNew, created_at |-> at[i], idempotency_key |-> "", xid |-> ""]
     : i \in 1..k}
\* the tables a client may page through: up to MaxList orders of any users,
\* or one user's DefaultLimit orders and one more
ListTables ==
    UNION {{ListTable(k, who, at) : who \in [1..k -> Users], at \in [1..k -> 1..2]}
           : k \in 0..MaxList}
    \cup {ListTable(DefaultLimit + 1, [i \in 1..(DefaultLimit + 1) |-> "u1"],
                    [i \in 1..(DefaultLimit + 1) |-> 1 + (i % 2)])}

InitOrders ==
    /\ orders \in IF Listing THEN ListTables ELSE {{}}
    /\ ordOutbox = {} /\ ordInbox = EmptyBag
    /\ list = ListIdle /\ gw = GwIdle
    /\ orderCache \in IF running = "orders-cache" THEN {NewOrderCache(on) : on \in BOOLEAN}
                      ELSE IF Reading THEN OrderCaches ELSE {NoOrderCache}
    /\ gets = GetsIdle
    /\ ctx = [orders |-> FALSE, payments |-> FALSE]
    /\ ow = [w \in OrderWorkers |-> OrdWorkerIdle]
    /\ resCons = ResIdle
    /\ ordFirst = {} /\ ordReply = NoCode
    /\ resLoop = IF ResLooping THEN StartLoop(<<>>) ELSE NoLoop
    /\ pub = PubIdle /\ peer = PubIdle /\ bus = {}

\* the gRPC server of Orders
NextOrdersRpc ==
    \/ \E w \in OrderWorkers : OrdReject(w)
    \/ \E w \in OrderWorkers : OrdBeginFail(w)
    \/ \E w \in OrderWorkers : OrdCreate(w)
    \/ \E w \in OrderWorkers : OrdReplay(w)
    \/ \E w \in OrderWorkers : OrdCommit(w)
    \/ \E w \in OrderWorkers : OrdFail(w)

NextOrders == NextOrdersRpc \/ ResHandle \/ ResCommit \/ ResFail

\* Orders with its cache: an order is placed and read while its PaymentResult
\* is consumed
NextOrdersCache ==
    \/ OrdCreate("w1") \/ OrdCommit("w1")
    \/ ResHandle \/ ResCommit \/ ResFail
    \/ \E g \in Getters : OrdGetOrder(g)
    \/ \E g \in Getters : OrdGetOrderQuery(g)
    \/ \E g \in Getters : OrdGetOrderSet(g)
    \/ OrderCacheExpire

\* Orders with its publisher, beside a client that orders
NextOrdersPublisher ==
    \/ \E w \in OrderWorkers : OrdCreate(w)
    \/ \E w \in OrderWorkers : OrdCommit(w)
    \/ \E p \in Publishers : PubLock(p)
    \/ \E p \in Publishers : PubSend(p)
    \/ \E p \in Publishers : PubSendFail(p)
    \/ \E p \in Publishers : PubMarkFail(p)
    \/ \E p \in Publishers : PubCommit(p)
    \/ \E p \in Publishers : PubAbort(p)

\* and until the context is cancelled
NextOrdersPublisherStop == NextOrdersPublisher \/ \E p \in Publishers : PubStop(p)

\* Orders with its consumer reading a partition, beside a client that orders
NextOrdersLoop ==
    \/ \E w \in OrderWorkers : OrdCreate(w)
    \/ \E w \in OrderWorkers : OrdCommit(w)
    \/ ResProduce \/ ResFetch \/ ResDrop \/ ResHandle \/ ResCommit \/ ResFail
    \/ ResAck \/ ResStop \/ ResRestart

\* Orders answering ListOrders over a table that does not change
NextOrdersList == OrdListOrders \/ OrdListOrdersFail

\* ============================================================== Payments
\* ---- the SQL of Payments
\* CreateAccount / CreateAccountIdempotent: a new account holds 0
NewAccount(acc, u) == [v \in DOMAIN acc \cup {u} |-> IF v = u THEN 0 ELSE acc[v]]
\* an INSERT that no primary key stops
CreateAccountNoConflict(acc, u) == FALSE
\* CreateAccount returns no row when the account exists
CreateAccountConflict(acc, u) == u \in DOMAIN acc
\* an upsert that overwrites the row it finds
CreateAccountReset(acc, u) == NewAccount(acc, u)
\* CreateAccountIdempotent: the account, created when missing
CreateAccountIdempotent(acc, u) == IF u \in DOMAIN acc THEN acc ELSE NewAccount(acc, u)

AccountExists(acc, u) == u \in DOMAIN acc

\* TopUp: UPDATE accounts SET balance = balance + amount: the new balance
TopUpBalance(acc, u, amount) == acc[u] + amount
\* a top-up of u by amount took effect
Credit(cr, u, amount) == [cr EXCEPT ![u] = @ + amount]

\* rows holding unique key (user_id, idempotency_key) of topup_idempotency
TopupKeyRows(t, u, k) == {r \in t : r.user_id = u /\ r.idempotency_key = k}

\* InsertTopupIdempotency waits while another open transaction holds the key
InsertTopupIdempotencyWaits(t, u, k, x) == \E r \in TopupKeyRows(t, u, k) : r.xid \notin {"", x}

\* a check that never sees the stored key
InsertTopupIdempotencyAlways(t, u, k) == 1

\* InsertTopupIdempotency: 1 when the row was inserted, 0 on conflict
InsertTopupIdempotency(t, u, k) == IF \E r \in TopupKeyRows(t, u, k) : r.xid = "" THEN 0 ELSE 1

\* the row it inserts: balance_after 0
TopupIdemRow(u, k, amount, x) ==
    [user_id |-> u, idempotency_key |-> k, amount |-> amount, balance_after |-> 0, xid |-> x]

GetTopupIdempotency(t, u, k) == CHOOSE r \in TopupKeyRows(t, u, k) : r.xid = ""

\* a handler that leaves the inserted row as it is
SetTopupIdempotencyBalanceSkipped(t, u, k, bal, x) == t

\* SetTopupIdempotencyBalance, by the transaction x that inserted the row
SetTopupIdempotencyBalance(t, u, k, bal, x) ==
    {IF r.user_id = u /\ r.idempotency_key = k /\ r.xid = x
     THEN [r EXCEPT !.balance_after = bal] ELSE r : r \in t}

\* DeleteTopupIdempotency, by the transaction x that inserted the row
DeleteTopupIdempotency(t, u, k, x) ==
    {r \in t : ~(r.user_id = u /\ r.idempotency_key = k /\ r.xid = x)}

\* a not_found branch that returns no error: WithTx commits the row as inserted
TopUpNotFoundCommits(t, u, k, x) == CommitRows(t, x)

\* q.TopUp finds no account: the idempotency row is deleted and the error
\* returned, on which WithTx rolls back
TopUpNotFound(t, u, k, x) == RollbackRows(DeleteTopupIdempotency(t, u, k, x), x)

\* ---- Handlers.CreateAccount, Handlers.TopUp
NoPayReq == [op |-> "", user_id |-> "", key |-> "", amount |-> 0]
NoAccReply == [user_id |-> "", key |-> "", code |-> NoCode, balance |-> 0]
NoBalReply == [user_id |-> "", code |-> NoCode, balance |-> 0]

\* ---- BalanceCache
\* NewBalanceCache: nil without a client
NoCache == [on |-> FALSE, entries |-> [u \in {} |-> 0]]
NewBalanceCache(enabled) == [NoCache EXCEPT !.on = enabled]

\* Get: the live entry of u, if the cache is enabled and holds one
CacheHit(c, u) == c.on /\ u \in DOMAIN c.entries

\* Set: the entry of u becomes bal
CacheSet(c, u, bal) ==
    [c EXCEPT !.entries = [v \in DOMAIN c.entries \cup {u} |->
                              IF v = u THEN bal ELSE c.entries[v]]]

\* the cache after a handler that answers ok: h.cache.Set with the balance it
\* returns, whose error is logged and dropped
CacheWrites(c, ok, u, acc) ==
    IF c.on /\ ok THEN {CacheSet(c, u, acc[u]), c} ELSE {c}

\* the entry of u reaches its ttl
CacheDrop(c, u) == [c EXCEPT !.entries = [v \in DOMAIN c.entries \ {u} |-> c.entries[v]]]
PayWorkerIdle == [pc |-> "idle", req |-> NoPayReq, balance |-> 0]

\* the deployments of Payments
PayActive(w) == \/ running \in {"payments-rpc", "payments-client"}
                \/ running \in {"payments", "payments-loop", "payments-cache"} /\ w = "w1"
\* the deployment followed for its balance reads
Caching == running = "payments-cache"
\* the observed deployment: it keeps what a client was answered and what a
\* handler saw
Observing == running = "payments-client"
\* the response of CreateAccount: the account row the statement returned
AccountResponse(req, code, acc) ==
    IF Observing
    THEN [user_id |-> req.user_id, key |-> req.key, code |-> code,
          balance |-> IF code = OK THEN acc[req.user_id] ELSE 0]
    ELSE NoAccReply
\* a keyed TopUp was answered not_found
Missed(missed, req) ==
    IF Observing THEN missed \cup {<<req.user_id, req.key>>} ELSE missed
ReqActive == running \in {"payments", "payments-client", "payments-loop", "payments-cache",
                        "system"}
\* the consumer reads a partition (else it is handed messages by the environment)
ReqLooping == running \in {"payments-loop", "system"}

\* the requests a client may send.  The two parallel workers serve every user;
\* beside the consumer the one worker serves one user, so that the other never
\* has an account.
PayUsers == IF running \in {"payments", "payments-client", "payments-loop", "payments-cache",
                            "system"}
            THEN {"u1"}
            ELSE Users
PayRequests ==
    IF Caching
    THEN [op : {"CreateAccount"}, user_id : PayUsers, key : {""}, amount : {0}]
         \cup [op : {"TopUp"}, user_id : PayUsers, key : Keys \cup {""}, amount : 1..MaxAmount]
    ELSE
    [op : {"CreateAccount"}, user_id : PayUsers \cup {""}, key : Keys \cup {""}, amount : {0}]
    \cup [op : {"TopUp"}, user_id : PayUsers \cup {""}, key : Keys \cup {""},
          amount : (-1)..MaxAmount]

\* TopUp accepts any amount
PayValidNoAmount(req) == req.user_id # ""

PayValid(req) ==
    /\ req.user_id # ""
    /\ req.op = "TopUp" => req.amount > 0

\* the replay's check of the stored amount against the request
SameTopUpParams(existing, req) == existing.amount = req.amount

\* the other service
PayOther == <<running, orders, ordOutbox, ordInbox, ow, resCons, ordFirst, ordReply,
              pub, peer, bus, Edge>>
\* what a step of the gRPC server or of a handler transaction of Payments leaves alone
PayFrame ==
    /\ UNCHANGED <<PayOther, resLoop, payMissed, credited, reqLoop, cache>>
    /\ accReply' = NoAccReply /\ balReply' = NoBalReply
\* what a step of a handler that writes the cache leaves alone
PayCacheFrame ==
    /\ UNCHANGED <<PayOther, resLoop, payMissed, reqLoop>>
    /\ accReply' = NoAccReply /\ balReply' = NoBalReply
\* what a step of the consumer that returns to its loop leaves alone
ReqFrame ==
    /\ UNCHANGED <<PayOther, resLoop, payMissed, credited, cache>>
    /\ accReply' = NoAccReply /\ balReply' = NoBalReply

PayCanCall(w) == PayActive(w) /\ pw[w].pc = "idle" /\ ~ctx.payments

\* the RPC returns with status code
PayDone(w, code) ==
    /\ pw' = [pw EXCEPT ![w] = PayWorkerIdle]
    /\ payReply' = code

\* the account row of u is write-locked by an open transaction other than x:
\* a keyed TopUp that has added its amount, or the consumer after its debit
\* no row lock: a statement never waits for an open transaction
AccountNeverLocked(u, x) == FALSE
\* the account row of u is locked by an open transaction other than x
AccountLocked(u, x) ==
    \/ \E w \in PayWorkers : w # x /\ pw[w].pc = "commit" /\ pw[w].req.user_id = u
    \/ x # "consumer" /\ reqCons.pc = "commit" /\ reqCons.opInserted = 1 /\ reqCons.user_id = u

\* validation fails
PayReject(w) ==
    /\ PayCanCall(w)
    /\ {req \in PayRequests : ~PayValid(req)} # {}
    /\ PayDone(w, InvalidArgument)
    /\ UNCHANGED <<accounts, ops, topupIdem, payInbox, payOutbox, reqCons, payFirst>>
    /\ PayFrame

\* the statement of a call without transaction, Begin, InsertTopupIdempotency or
\* GetTopupIdempotency fails: nothing was written
PayBeginFail(w) ==
    /\ PayCanCall(w)
    /\ {req \in PayRequests : PayValid(req)} # {}
    /\ PayDone(w, Internal)
    /\ UNCHANGED <<accounts, ops, topupIdem, payInbox, payOutbox, reqCons, payFirst>>
    /\ PayFrame

\* CreateAccount: one statement, committed at once; c is the cache the handler
\* is given and c2 the cache it leaves
PayCreateAccountWith(w, c, c2) ==
    \E req \in PayRequests :
        /\ PayCanCall(w)
        /\ req.op = "CreateAccount" /\ PayValid(req)
        /\ IF req.key = ""
           THEN IF CreateAccountConflict(accounts, req.user_id)
                THEN accounts' = accounts /\ PayDone(w, AlreadyExists)
                ELSE accounts' = NewAccount(accounts, req.user_id) /\ PayDone(w, OK)
           ELSE accounts' = CreateAccountIdempotent(accounts, req.user_id) /\ PayDone(w, OK)
        /\ accReply' = AccountResponse(req, payReply', accounts')
        /\ c2 \in CacheWrites(c, payReply' = OK, req.user_id, accounts')
        /\ balReply' = NoBalReply
        /\ UNCHANGED <<ops, topupIdem, payInbox, payOutbox, reqCons, payFirst>>
        /\ UNCHANGED <<PayOther, resLoop, payMissed, credited, reqLoop>>

PayCreateAccount(w) == PayCreateAccountWith(w, cache, cache')

\* TopUp without key, were it to add the amount to the cached balance
PayTopUpKeylessOnCache(w, c, c2) ==
    \E req \in PayRequests :
        /\ PayCanCall(w)
        /\ req.op = "TopUp" /\ PayValid(req) /\ req.key = ""
        /\ ~AccountLocked(req.user_id, w)
        /\ AccountExists(accounts, req.user_id)
        /\ LET base == IF CacheHit(c, req.user_id) THEN c.entries[req.user_id]
                       ELSE accounts[req.user_id]
           IN /\ base + req.amount <= MaxBalance
              /\ accounts' = [accounts EXCEPT ![req.user_id] = base + req.amount]
        /\ credited' = Credit(credited, req.user_id, req.amount)
        /\ PayDone(w, OK)
        /\ c2 \in CacheWrites(c, TRUE, req.user_id, accounts')
        /\ UNCHANGED <<ops, topupIdem, payInbox, payOutbox, reqCons, payFirst>>
        /\ PayCacheFrame

\* TopUp without key: one statement, committed at once
PayTopUpKeylessWith(w, c, c2) ==
    \E req \in PayRequests :
        /\ PayCanCall(w)
        /\ req.op = "TopUp" /\ PayValid(req) /\ req.key = ""
        /\ ~AccountLocked(req.user_id, w)
        /\ IF AccountExists(accounts, req.user_id)
           THEN /\ TopUpBalance(accounts, req.user_id, req.amount) <= MaxBalance
                /\ accounts' = [accounts EXCEPT ![req.user_id] =
                                    TopUpBalance(accounts, req.user_id, req.amount)]
                /\ credited' = Credit(credited, req.user_id, req.amount)
                /\ PayDone(w, OK)
           ELSE accounts' = accounts /\ credited' = credited /\ PayDone(w, NotFound)
        /\ c2 \in CacheWrites(c, payReply' = OK, req.user_id, accounts')
        /\ UNCHANGED <<ops, topupIdem, payInbox, payOutbox, reqCons, payFirst>>
        /\ PayCacheFrame

PayTopUpKeyless(w) == PayTopUpKeylessWith(w, cache, cache')

\* TopUp with key: Begin and InsertTopupIdempotency reporting 1
PayTopUpInsert(w) ==
    \E req \in PayRequests :
        /\ PayCanCall(w)
        /\ req.op = "TopUp" /\ PayValid(req) /\ req.key # ""
        /\ ~InsertTopupIdempotencyWaits(topupIdem, req.user_id, req.key, w)
        /\ InsertTopupIdempotency(topupIdem, req.user_id, req.key) = 1
        /\ topupIdem' = topupIdem \cup {TopupIdemRow(req.user_id, req.key, req.amount, w)}
        /\ pw' = [pw EXCEPT ![w] = [pc |-> "topup", req |-> req, balance |-> 0]]
        /\ payReply' = NoCode
        /\ UNCHANGED <<accounts, ops, payInbox, payOutbox, reqCons, payFirst>>
        /\ PayFrame

\* TopUp with key: InsertTopupIdempotency reports 0; the stored row is loaded and
\* compared; a match is answered with its balance_after, a mismatch with
\* FailedPrecondition
PayTopUpReplay(w) ==
    \E req \in PayRequests :
        /\ PayCanCall(w)
        /\ req.op = "TopUp" /\ PayValid(req) /\ req.key # ""
        /\ ~InsertTopupIdempotencyWaits(topupIdem, req.user_id, req.key, w)
        /\ InsertTopupIdempotency(topupIdem, req.user_id, req.key) = 0
        /\ LET existing == GetTopupIdempotency(topupIdem, req.user_id, req.key)
           IN IF SameTopUpParams(existing, req)
              THEN /\ pw' = [pw EXCEPT ![w] = [pc |-> "reply", req |-> req,
                                               balance |-> existing.balance_after]]
                   /\ payReply' = NoCode
              ELSE PayDone(w, FailedPrecondition)
        /\ UNCHANGED <<accounts, ops, topupIdem, payInbox, payOutbox, reqCons, payFirst>>
        /\ PayFrame

\* TopUp with key: q.TopUp.  With no account the idempotency row is deleted and
\* NotFound returned (rollback); else the balance is raised and
\* SetTopupIdempotencyBalance records it
PayTopUpApply(w) ==
    /\ PayActive(w) /\ pw[w].pc = "topup"
    /\ LET req == pw[w].req
       IN /\ ~AccountLocked(req.user_id, w)
          /\ IF AccountExists(accounts, req.user_id)
             THEN LET bal == TopUpBalance(accounts, req.user_id, req.amount)
                  IN /\ bal <= MaxBalance
                     /\ topupIdem' = SetTopupIdempotencyBalance(topupIdem, req.user_id,
                                                                req.key, bal, w)
                     /\ pw' = [pw EXCEPT ![w] = [pc |-> "commit", req |-> req, balance |-> bal]]
                     /\ payReply' = NoCode
                     /\ payMissed' = payMissed
             ELSE /\ topupIdem' = TopUpNotFound(topupIdem, req.user_id, req.key, w)
                  /\ payMissed' = Missed(payMissed, req)
                  /\ PayDone(w, NotFound)
    /\ UNCHANGED <<accounts, ops, payInbox, payOutbox, reqCons, payFirst>>
    /\ UNCHANGED <<PayOther, resLoop, credited, reqLoop, cache>>
    /\ accReply' = NoAccReply /\ balReply' = NoBalReply

\* tx.Commit succeeds: the writes become visible and the response is sent
PayCommitWith(w, c, c2) ==
    /\ PayActive(w) /\ pw[w].pc \in {"commit", "reply"}
    /\ accounts' = IF pw[w].pc = "commit"
                   THEN [accounts EXCEPT ![pw[w].req.user_id] = pw[w].balance]
                   ELSE accounts
    /\ credited' = IF pw[w].pc = "commit"
                   THEN Credit(credited, pw[w].req.user_id, pw[w].req.amount)
                   ELSE credited
    /\ topupIdem' = CommitRows(topupIdem, w)
    /\ payFirst' = RecordFirst(payFirst, pw[w].req, pw[w].balance)
    /\ PayDone(w, OK)
    /\ c2 \in CacheWrites(c, pw[w].pc = "commit", pw[w].req.user_id, accounts')
    /\ UNCHANGED <<ops, payInbox, payOutbox, reqCons>>
    /\ PayCacheFrame

PayCommit(w) == PayCommitWith(w, cache, cache')

\* GetBalance: the cached balance on a hit; else (no entry, a cache error, no
\* cache) the balance of the account row, which is then written to the cache
PayGetBalance(w) ==
    \E u \in PayUsers, hit \in BOOLEAN :
        /\ PayCanCall(w)
        /\ hit => CacheHit(cache, u)
        /\ IF hit
           THEN /\ PayDone(w, OK)
                /\ balReply' = [user_id |-> u, code |-> OK, balance |-> cache.entries[u]]
                /\ cache' = cache
           ELSE /\ PayDone(w, IF AccountExists(accounts, u) THEN OK ELSE NotFound)
                /\ balReply' = [user_id |-> u, code |-> payReply',
                                balance |-> IF payReply' = OK THEN accounts[u] ELSE 0]
                /\ cache' \in CacheWrites(cache, payReply' = OK, u, accounts)
        /\ accReply' = NoAccReply
        /\ UNCHANGED <<accounts, ops, topupIdem, payInbox, payOutbox, reqCons, payFirst>>
        /\ UNCHANGED <<PayOther, resLoop, payMissed, credited, reqLoop>>

\* an entry of the cache expires
CacheExpire ==
    \E u \in DOMAIN cache.entries :
        /\ Caching
        /\ cache' = CacheDrop(cache, u)
        /\ payReply' = NoCode /\ accReply' = NoAccReply /\ balReply' = NoBalReply
        /\ UNCHANGED <<accounts, ops, topupIdem, payInbox, payOutbox, pw, reqCons, payFirst>>
        /\ UNCHANGED <<PayOther, resLoop, payMissed, credited, reqLoop>>

\* a statement or Commit fails: WithTx rolls back
PayFail(w) ==
    /\ PayActive(w) /\ pw[w].pc \in {"topup", "commit", "reply"}
    /\ topupIdem' = RollbackRows(topupIdem, w)
    /\ PayDone(w, Internal)
    /\ UNCHANGED <<accounts, ops, payInbox, payOutbox, reqCons, payFirst>>
    /\ PayFrame

\* ---- PaymentRequestedConsumer.handleMessage
\* (decodes: whether proto.Unmarshal accepts the payload)
RequestMessages ==
    IF EndToEnd
    THEN [event_id : {1}, order_id : {1}, user_id : {"u1"}, amount : {1}, decodes : {TRUE}]
    ELSE IF ReqLooping
    THEN [event_id : EventIds, order_id : {1}, user_id : {"u1"}, amount : {1},
          decodes : {TRUE}]
         \cup {[event_id |-> BadUuid, order_id |-> 1, user_id |-> "u1", amount |-> 1,
                 decodes |-> TRUE],
                [event_id |-> 101, order_id |-> BadUuid, user_id |-> "u1", amount |-> 1,
                 decodes |-> TRUE],
                [event_id |-> 101, order_id |-> 1, user_id |-> "", amount |-> 1,
                 decodes |-> TRUE],
                [event_id |-> 101, order_id |-> 1, user_id |-> "u1", amount |-> 0,
                 decodes |-> TRUE],
                [event_id |-> BadUuid, order_id |-> BadUuid, user_id |-> "", amount |-> 0,
                 decodes |-> FALSE]}
    ELSE IF Observing
    THEN [event_id : {101}, order_id : {1}, user_id : PayUsers \cup {""}, amount : 0..1,
          decodes : {TRUE}]
    ELSE IF Caching
    THEN [event_id : {101}, order_id : {1}, user_id : PayUsers, amount : {1}, decodes : {TRUE}]
    ELSE [event_id : EventIds, order_id : BusOrderIds, user_id : PayUsers \cup {""},
          amount : 0..MaxAmount, decodes : {TRUE}]

\* the payload decodes, event_id and order_id parse as UUIDs, user_id is present
\* and amount positive
PaymentRequestedValid(m) ==
    /\ m.decodes /\ UuidParses(m.event_id) /\ UuidParses(m.order_id)
    /\ m.user_id # "" /\ m.amount > 0

\* the message handleMessage is called with
ReqDelivered(m) == IF ReqLooping THEN reqLoop.pc = "handle" /\ m = Fetched(reqLoop) ELSE TRUE

\* (existed: whether the account existed when TryDeductOnce ran, as the observed
\* deployment remembers it)
ReqIdle == [pc |-> "idle", msgID |-> 0, orderID |-> 0, user_id |-> "", amount |-> 0,
            inserted |-> 0, opInserted |-> 0, status |-> "", existed |-> FALSE]

\* InsertInboxCheck of Payments: 1 when the message id is new, else 0
PayInsertInboxCheck(t, msgID) == IF \E r \in BagToSet(t) : r.message_id = msgID THEN 0 ELSE 1

\* a handler that ignores the inbox verdict
ReqNeverProcessed(inserted) == FALSE

\* a handler that takes a message published twice for new
ReqTakesForNew(inserted) == FALSE

\* inserted == 0: the handler returns without debiting
ReqAlreadyProcessed(inserted) == inserted = 0

\* a debit that does not look for the order's operation row
TryDeductOnceUnguarded(acc, t, orderID, u, amount) ==
    IF u \in DOMAIN acc /\ acc[u] >= amount THEN 1 ELSE 0

\* TryDeductOnce: 1 when the account exists, holds the amount and no operation
\* row bears the order_id (balance lowered, operation row written), else 0
TryDeductOnce(acc, t, orderID, u, amount) ==
    IF /\ u \in DOMAIN acc
       /\ acc[u] >= amount
       /\ ~\E r \in BagToSet(t) : r.order_id = orderID
    THEN 1 ELSE 0

\* its UPDATE waits for the account row while another transaction holds it
TryDeductOnceWaits(acc, t, orderID, u, amount) ==
    TryDeductOnce(acc, t, orderID, u, amount) = 1 /\ AccountLocked(u, "consumer")

\* a classification that leaves the status of a missing account as initialised
FailStatusUnset(exists) == IF exists THEN FAIL_NOT_ENOUGH_FUNDS ELSE FAIL_INTERNAL

\* the classification of a debit that wrote no operation row
FailStatus(exists) == IF exists THEN FAIL_NOT_ENOUGH_FUNDS ELSE FAIL_NO_ACCOUNT

Reason(status) ==
    IF status = FAIL_NO_ACCOUNT THEN "account not found"
    ELSE IF status = FAIL_NOT_ENOUGH_FUNDS THEN "not enough funds" ELSE ""

\* InsertOutbox of Payments: the PaymentResult row
PayOutboxRow(t, orderID, u, status) ==
    [id |-> Fresh({r.id : r \in t}),
     topic |-> TopicPaymentResult,
     kafka_key |-> orderID,
     payload |-> [event_id |-> Fresh({r.payload.event_id : r \in t}),
                  order_id |-> orderID, user_id |-> u, status |-> status,
                  reason |-> Reason(status)],
     sent |-> FALSE, attempts |-> 0]

\* a payload that does not decode, an event_id or order_id that is no UUID, an
\* empty user_id or a non-positive amount: handleMessage returns nil before any
\* transaction
ReqDrop ==
    /\ ReqActive /\ reqCons.pc = "idle"
    /\ {m \in RequestMessages : ReqDelivered(m) /\ ~PaymentRequestedValid(m)} # {}
    /\ reqLoop' = HandlerReturned(reqLoop, TRUE)
    /\ payReply' = NoCode
    /\ UNCHANGED <<accounts, ops, topupIdem, payInbox, payOutbox, pw, reqCons, payFirst>>
    /\ ReqFrame

\* Begin, InsertInboxCheck and, for a new message, TryDeductOnce; a debit that
\* wrote its operation row is SUCCESS and its PaymentResult is inserted
ReqHandle ==
    \E m \in RequestMessages :
        /\ ReqActive /\ reqCons.pc = "idle" /\ ~ctx.payments
        /\ ReqDelivered(m) /\ PaymentRequestedValid(m)
        /\ LET inserted == PayInsertInboxCheck(payInbox, m.event_id)
               op == TryDeductOnce(accounts, ops, m.order_id, m.user_id, m.amount)
           IN IF ReqAlreadyProcessed(inserted)
              THEN reqCons' = [ReqIdle EXCEPT !.pc = "commit", !.msgID = m.event_id,
                                              !.orderID = m.order_id]
              ELSE /\ ~TryDeductOnceWaits(accounts, ops, m.order_id, m.user_id, m.amount)
                   /\ reqCons' = [pc |-> IF op = 1 THEN "commit" ELSE "exists",
                                  msgID |-> m.event_id, orderID |-> m.order_id,
                                  user_id |-> m.user_id, amount |-> m.amount,
                                  inserted |-> inserted, opInserted |-> op,
                                  status |-> IF op = 1 THEN SUCCESS ELSE FAIL_INTERNAL,
                                  existed |-> Observing /\ AccountExists(accounts, m.user_id)]
        /\ payReply' = NoCode
        /\ UNCHANGED <<accounts, ops, topupIdem, payInbox, payOutbox, pw, payFirst>>
        /\ PayFrame

\* AccountExists classifies the failed debit, and its PaymentResult is inserted
ReqAccountExists ==
    /\ ReqActive /\ reqCons.pc = "exists" /\ ~ctx.payments
    /\ reqCons' = [reqCons EXCEPT !.pc = "commit",
                                  !.status = FailStatus(AccountExists(accounts, reqCons.user_id))]
    /\ payReply' = NoCode
    /\ UNCHANGED <<accounts, ops, topupIdem, payInbox, payOutbox, pw, payFirst>>
    /\ PayFrame

\* tx.Commit succeeds: inbox row, debit, operation row and outbox row appear
ReqCommit ==
    /\ ReqActive /\ reqCons.pc = "commit" /\ ~ctx.payments
    /\ payInbox' = IF reqCons.inserted = 1
                   THEN payInbox (+) SetToBag({[message_id |-> reqCons.msgID,
                                                order_id |-> reqCons.orderID]})
                   ELSE payInbox
    /\ IF reqCons.opInserted = 1
       THEN /\ ops' = ops (+) SetToBag({[order_id |-> reqCons.orderID,
                                         user_id |-> reqCons.user_id,
                                         amount |-> reqCons.amount]})
            /\ accounts' = [accounts EXCEPT ![reqCons.user_id] = @ - reqCons.amount]
       ELSE UNCHANGED <<ops, accounts>>
    /\ payOutbox' = IF reqCons.status # ""
                    THEN payOutbox \cup {PayOutboxRow(payOutbox, reqCons.orderID,
                                                      reqCons.user_id, reqCons.status)}
                    ELSE payOutbox
    /\ reqCons' = ReqIdle
    /\ reqLoop' = HandlerReturned(reqLoop, TRUE)
    /\ payReply' = NoCode
    /\ UNCHANGED <<topupIdem, pw, payFirst>>
    /\ ReqFrame

\* a statement or Commit fails: rollback, the handler returns the error
ReqFail ==
    /\ ReqActive /\ reqCons.pc \in {"exists", "commit"}
    /\ reqCons' = ReqIdle
    /\ reqLoop' = HandlerReturned(reqLoop, FALSE)
    /\ payReply' = NoCode
    /\ UNCHANGED <<accounts, ops, topupIdem, payInbox, payOutbox, pw, payFirst>>
    /\ ReqFrame

\* ---- PaymentRequestedConsumer.Run
\* what a step of the loop outside the handler leaves alone
ReqLoopFrame ==
    /\ payReply' = NoCode
    /\ UNCHANGED <<accounts, ops, topupIdem, payInbox, payOutbox, pw, reqCons, payFirst>>
    /\ ReqFrame

\* FetchMessage returns the next message
ReqFetch ==
    /\ ReqLooping /\ reqLoop.pc = "fetch"
    /\ reqLoop.pos <= Len(reqLoop.log)
    /\ reqLoop' = FetchMessage(reqLoop)
    /\ ReqLoopFrame

\* CommitMessages succeeds
ReqAck ==
    /\ ReqLooping /\ reqLoop.pc = "ack"
    /\ reqLoop' = CommitMessages(reqLoop)
    /\ ReqLoopFrame

\* the context is cancelled while Run is in FetchMessage: Run returns nil
ReqDone ==
    /\ ReqLooping /\ reqLoop.pc = "fetch" /\ ctx.payments
    /\ reqLoop' = ReturnNil(reqLoop)
    /\ ReqLoopFrame

\* the context is cancelled before the handler's Begin, which fails:
\* handleMessage returns the error
ReqBeginFail ==
    /\ ReqLooping /\ reqLoop.pc = "handle" /\ reqCons.pc = "idle" /\ ctx.payments
    /\ reqLoop' = HandlerReturned(reqLoop, FALSE)
    /\ ReqLoopFrame

\* FetchMessage or CommitMessages fails: Run returns the error and the service
\* stops (a FetchMessage that fails on a cancelled context is ReqDone)
ReqStop ==
    /\ ReqLooping /\ reqLoop.pc \in {"fetch", "ack"}
    /\ reqLoop.pc = "ack" \/ ~ctx.payments
    /\ reqLoop' = StopLoop(reqLoop)
    /\ ReqLoopFrame

\* the service is started again
ReqRestart ==
    /\ ReqLooping /\ reqLoop.pc = "stopped"
    /\ reqLoop' = RestartLoop(reqLoop)
    /\ ReqLoopFrame

\* ---- OutboxPublisher of Payments
\* the accounts the orders meet: none, one without money, one that can pay
SystemAccounts == {[u \in {} |-> 0]} \cup {[u \in {"u1"} |-> b] : b \in 0..1}

\* the oldest row of the outbox of Payments without sent_at
OldestUnsent(t) ==
    CHOOSE r \in t : ~r.sent /\ \A q \in t : ~q.sent => r.id <= q.id

\* what a pass of the publisher of Payments leaves alone
PayPubFrame ==
    /\ payReply' = NoCode /\ accReply' = NoAccReply /\ balReply' = NoBalReply
    /\ UNCHANGED <<accounts, ops, topupIdem, payInbox, pw, reqCons, payFirst>>
    /\ UNCHANGED <<PayOther, payMissed, credited, reqLoop, cache>>

\* a pass: the oldest unsent row is locked, its PaymentResult written to the
\* bus, the row marked sent, the transaction committed
PayPublish ==
    /\ EndToEnd /\ {r \in payOutbox : ~r.sent} # {} /\ ~ctx.payments
    /\ Room(resLoop, 1)
    /\ resLoop' = Partition(resLoop, [f \in {"event_id", "order_id", "status"} |->
                                         OldestUnsent(payOutbox).payload[f]])
    /\ payOutbox' = {IF r = OldestUnsent(payOutbox) THEN [r EXCEPT !.sent = TRUE] ELSE r :
                        r \in payOutbox}
    /\ PayPubFrame

\* a pass that is rolled back after the bus accepted the message
PayPublishAgain ==
    /\ EndToEnd /\ {r \in payOutbox : ~r.sent} # {} /\ ~ctx.payments
    /\ Room(resLoop, 2)
    /\ resLoop' = Partition(resLoop, [f \in {"event_id", "order_id", "status"} |->
                                         OldestUnsent(payOutbox).payload[f]])
    /\ payOutbox' = payOutbox
    /\ PayPubFrame

\* the partitions a consumer of Payments may find
RequestLogs == [1..LogLen -> RequestMessages]

InitPayments ==
    /\ accounts \in IF EndToEnd THEN SystemAccounts ELSE {[u \in {} |-> 0]}
    /\ ops = EmptyBag /\ topupIdem = {} /\ payInbox = EmptyBag /\ payOutbox = {}
    /\ pw = [w \in PayWorkers |-> PayWorkerIdle]
    /\ reqCons = ReqIdle
    /\ payFirst = {} /\ payReply = NoCode
    /\ accReply = NoAccReply /\ payMissed = {}
    /\ credited = [u \in PayUsers |-> IF u \in DOMAIN accounts THEN accounts[u] ELSE 0]
    /\ balReply = NoBalReply
    /\ cache \in IF Caching THEN {NewBalanceCache(on) : on \in BOOLEAN} ELSE {NoCache}
    /\ reqLoop \in IF EndToEnd \/ Republishing THEN {StartLoop(<<>>)}
                   ELSE IF ReqLooping THEN {StartLoop(log) : log \in RequestLogs}
                   ELSE {NoLoop}

\* the gRPC server of Payments
NextPaymentsRpc ==
    \/ \E w \in PayWorkers : PayReject(w)
    \/ \E w \in PayWorkers : PayBeginFail(w)
    \/ \E w \in PayWorkers : PayCreateAccount(w)
    \/ \E w \in PayWorkers : PayTopUpKeyless(w)
    \/ \E w \in PayWorkers : PayTopUpInsert(w)
    \/ \E w \in PayWorkers : PayTopUpReplay(w)
    \/ \E w \in PayWorkers : PayTopUpApply(w)
    \/ \E w \in PayWorkers : PayCommit(w)
    \/ \E w \in PayWorkers : PayFail(w)

NextPayments ==
    NextPaymentsRpc \/ ReqDrop \/ ReqHandle \/ ReqAccountExists \/ ReqCommit \/ ReqFail

\* Payments with its cache, or without: a client that opens an account, tops
\* it up and reads the balance, beside the consumer
NextPaymentsCache ==
    \/ \E w \in PayWorkers : PayCreateAccount(w)
    \/ \E w \in PayWorkers : PayTopUpKeyless(w)
    \/ \E w \in PayWorkers : PayTopUpInsert(w)
    \/ \E w \in PayWorkers : PayTopUpReplay(w)
    \/ \E w \in PayWorkers : PayTopUpApply(w)
    \/ \E w \in PayWorkers : PayCommit(w)
    \/ \E w \in PayWorkers : PayFail(w)
    \/ \E w \in PayWorkers : PayGetBalance(w)
    \/ CacheExpire
    \/ ReqHandle \/ ReqAccountExists \/ ReqCommit \/ ReqFail

\* the same handlers and consumer given no cache (a nil *BalanceCache)
NextPaymentsNoCache ==
    \/ \E w \in PayWorkers : PayCreateAccountWith(w, NoCache, NoCache)
    \/ \E w \in PayWorkers : PayTopUpKeylessWith(w, NoCache, NoCache)
    \/ \E w \in PayWorkers : PayTopUpInsert(w)
    \/ \E w \in PayWorkers : PayTopUpReplay(w)
    \/ \E w \in PayWorkers : PayTopUpApply(w)
    \/ \E w \in PayWorkers : PayCommitWith(w, NoCache, NoCache)
    \/ \E w \in PayWorkers : PayFail(w)
    \/ ReqHandle \/ ReqAccountExists \/ ReqCommit \/ ReqFail

\* Payments with its consumer reading a partition, beside a client that opens an
\* account and tops it up
NextPaymentsLoop ==
    \/ \E w \in PayWorkers : PayCreateAccount(w)
    \/ \E w \in PayWorkers : PayTopUpKeyless(w)
    \/ ReqFetch \/ ReqDrop \/ ReqHandle \/ ReqAccountExists \/ ReqCommit \/ ReqFail
    \/ ReqAck \/ ReqStop \/ ReqRestart

\* ================================================================ system
\* the publisher of Orders
InitPublisher == running = "orders-publisher" /\ InitOrders /\ InitPayments
SpecPublisher == InitPublisher /\ [][NextOrdersPublisherStop]_vars

\* the publisher while the bus comes to accept each publish and the database
\* each commit
FairPublisher ==
    /\ WF_vars(PubLock("p1"))
    /\ \A k \in 1..Batch : SF_vars(PubSend("p1") /\ pub.i = k)
    /\ SF_vars(PubCommit("p1"))
SpecPublisherLive == InitPublisher /\ [][NextOrdersPublisher]_vars /\ FairPublisher

\* the publisher and the partition it writes to, which shows what it repeats
InitOutbox == running = "orders-outbox" /\ InitOrders /\ InitPayments
SpecOutbox == InitOutbox /\ [][NextOrdersPublisherStop]_vars

\* Orders with its cache, empty at the start
InitOrderCache == running = "orders-cache" /\ InitOrders /\ InitPayments
SpecOrderCache == InitOrderCache /\ [][NextOrdersCache]_vars
\* Orders with a cache that holds whatever
InitOrderCacheAny == running = "orders-cache-any" /\ InitOrders /\ InitPayments
SpecOrderCacheAny == InitOrderCacheAny /\ [][NextOrdersCache]_vars

\* two instances of the publisher on one outbox
InitPublishers == running = "orders-publishers" /\ InitOrders /\ InitPayments
SpecPublishers == InitPublishers /\ [][NextOrdersPublisherStop]_vars

\* both services: an order is placed, its PaymentRequested published, the
\* debit attempted, the PaymentResult published and consumed.  First the steps
\* that cannot fail or that succeed, then the publisher's failures, then those
\* of the handler transactions.
NextSystemSteady ==
    \/ \E w \in OrderWorkers : OrdCreate(w)
    \/ \E w \in OrderWorkers : OrdCommit(w)
    \/ PubLock("p1") \/ PubSend("p1") \/ PubCommit("p1")
    \/ ReqFetch \/ ReqHandle \/ ReqAccountExists \/ ReqCommit \/ ReqAck
    \/ PayPublish \/ PayPublishAgain
    \/ ResFetch \/ ResHandle \/ ResCommit \/ ResAck

NextSystemCrash ==
    NextSystemSteady \/ PubSendFail("p1") \/ PubMarkFail("p1") \/ PubAbort("p1")

NextSystem == NextSystemCrash \/ ReqFail \/ ResFail

\* every step that is possible for good is taken; a publish, a commit that is
\* tried again and again succeeds
FairSystem ==
    /\ FairPublisher
    /\ WF_vars(ReqFetch) /\ WF_vars(ReqHandle) /\ WF_vars(ReqAccountExists) /\ WF_vars(ReqAck)
    /\ SF_vars(ReqCommit)
    /\ WF_vars(PayPublish)
    /\ WF_vars(ResFetch) /\ WF_vars(ResHandle) /\ WF_vars(ResAck)
    /\ SF_vars(ResCommit)

\* the shutdown signal reaches a service: its root context is cancelled
Cancel ==
    \E svc \in {"orders", "payments"} :
        /\ EndToEnd /\ ~ctx[svc]
        /\ ctx' = [ctx EXCEPT ![svc] = TRUE]
        /\ ordReply' = NoCode /\ payReply' = NoCode
        /\ accReply' = NoAccReply /\ balReply' = NoBalReply
        /\ UNCHANGED <<running, orders, ordOutbox, ordInbox, ow, resCons, ordFirst>>
        /\ UNCHANGED <<accounts, ops, topupIdem, payInbox, payOutbox, pw, reqCons, payFirst,
                       payMissed, credited, cache>>
        /\ UNCHANGED <<Wire, list, gw, orderCache, gets>>

\* both services until they are shut down
NextSystemStop ==
    \/ NextSystem
    \/ Cancel
    \/ ResBeginFail \/ ResStop \/ ResDone
    \/ ReqBeginFail \/ ReqStop \/ ReqDone
    \/ PubStop("p1")

\* a loop that can return does; a transaction that can only fail does
FairShutdown ==
    /\ WF_vars(ResDone) /\ WF_vars(ResStop \/ ResAck) /\ WF_vars(ResBeginFail \/ ResHandle)
    /\ WF_vars(ResFail \/ ResCommit)
    /\ WF_vars(ReqDone) /\ WF_vars(ReqStop \/ ReqAck) /\ WF_vars(ReqBeginFail \/ ReqHandle)
    /\ WF_vars(ReqFail \/ ReqCommit \/ ReqAccountExists)
    /\ WF_vars(PubStop("p1"))
    /\ WF_vars(PubAbort("p1") \/ PubCommit("p1") \/ PubSend("p1") \/ PubSendFail("p1")
               \/ PubMarkFail("p1"))

InitSystem == running = "system" /\ InitOrders /\ InitPayments
SpecShutdown == InitSystem /\ [][NextSystemStop]_vars /\ FairShutdown
SpecSystem == InitSystem /\ [][NextSystem]_vars
SpecSystemLive == InitSystem /\ [][NextSystem]_vars /\ FairSystem
SpecCrashLive == InitSystem /\ [][NextSystemCrash]_vars /\ FairSystem

\* the gateway in front of both services
InitGateway == running = "gateway" /\ InitOrders /\ InitPayments
SpecGateway == InitGateway /\ [][NextGateway]_vars

\* the paging of ListOrders
InitList == running = "orders-list" /\ InitOrders /\ InitPayments
SpecList == InitList /\ [][NextOrdersList]_vars

\* the balance reads
InitCache == running = "payments-cache" /\ InitOrders /\ InitPayments
SpecCache == InitCache /\ [][NextPaymentsCache]_vars

\* the consumer loops
InitLoops == running \in {"orders-loop", "payments-loop"} /\ InitOrders /\ InitPayments
SpecLoops == InitLoops /\ [][NextOrdersLoop \/ NextPaymentsLoop]_vars

\* the client deployment of Payments: two workers serving one user, beside the
\* consumer, which is handed one PaymentRequested of that user
InitClient == running = "payments-client" /\ InitOrders /\ InitPayments
SpecClient == InitClient /\ [][NextPayments]_vars

\* Orders alone, Payments alone
InitOrdersOnly == running \in {"orders-rpc", "orders"} /\ InitOrders /\ InitPayments
InitPaymentsOnly == running \in {"payments-rpc", "payments"} /\ InitOrders /\ InitPayments

SpecOrders == InitOrdersOnly /\ [][NextOrders]_vars
SpecPayments == InitPaymentsOnly /\ [][NextPayments]_vars

\* the gRPC servers of both services, each under parallel calls
InitRpc == running \in {"orders-rpc", "payments-rpc"} /\ InitOrders /\ InitPayments
SpecRpc == InitRpc /\ [][NextOrdersRpc \/ NextPaymentsRpc]_vars

\* the consumers of both services, each beside one RPC worker
InitConsumers == running \in {"orders", "payments"} /\ InitOrders /\ InitPayments
SpecConsumers == InitConsumers /\ [][NextOrders \/ NextPayments]_vars

\* either service on its own (the two together: SpecSystem)
Init ==
    /\ running \in {"orders-rpc", "orders", "orders-loop", "orders-publisher",
                    "orders-publishers", "payments-cache",
                    "payments-rpc", "payments", "payments-loop", "payments-client"}
    /\ InitOrders /\ InitPayments

Next == NextOrders \/ NextOrdersLoop \/ NextOrdersPublisherStop \/ NextPayments \/ NextPaymentsLoop
        \/ NextPaymentsCache

Spec == Init /\ [][Next]_vars

\* ================================================================ properties
\* ---- Orders
OrderById(t, oid) == CHOOSE r \in t : r.order_id = oid
Terminal == {StatusFinished, StatusCancelled}

\* the PaymentRequested rows of the outbox for order oid that transaction x wrote
OrdOutboxOf(oid, x) ==
    {r \in ordOutbox : r.xid = x /\ r.topic = TopicPaymentRequested /\ r.kafka_key = oid}

\* worker w returns code in this step
OrdReturns(w, code) == ow[w].pc # "idle" /\ ow'[w].pc = "idle" /\ ordReply' = code

\* C1: an order's status changes only from NEW to FINISHED or from NEW to
\* CANCELLED; a FINISHED or CANCELLED order never changes again, whatever
\* PaymentResult deliveries (duplicates, other event ids, any order) arrive.
C1_StatusOnlyLeavesNew ==
    [][\A oid \in OrderIds(orders) \cap OrderIds(orders') :
          OrderById(orders, oid).status # OrderById(orders', oid).status
          => /\ OrderById(orders, oid).status = StatusNew
             /\ OrderById(orders', oid).status \in Terminal]_vars

\* a second PaymentResult with another event id and the opposite verdict has been
\* handled for an order that is already FINISHED, and it matched no row
C1_Witness ==
    /\ resCons.pc = "commit" /\ resCons.inserted = 1 /\ resCons.upd = {}
    /\ resCons.newStatus = StatusCancelled
    /\ BagCardinality(ordInbox) = 1
    /\ \E r \in orders : r.order_id = resCons.orderID /\ r.status = StatusFinished

\* C6: in every committed state each order has exactly one PaymentRequested
\* outbox row, keyed by its order_id and carrying its user_id and amount, and
\* every outbox row belongs to an order of the same transaction: an order that
\* did not commit has no outbox row.
C6_OrderAndOutboxTogether ==
    /\ \A r \in orders :
          /\ Cardinality(OrdOutboxOf(r.order_id, r.xid)) = 1
          /\ \A o \in OrdOutboxOf(r.order_id, r.xid) :
                /\ o.payload.order_id = r.order_id
                /\ o.payload.user_id = r.user_id
                /\ o.payload.amount = r.amount
    /\ \A o \in ordOutbox :
          \E r \in orders : r.order_id = o.kafka_key /\ r.xid = o.xid

\* a committed order with its outbox row, beside a CreateOrder that has written
\* both of its rows and not yet committed
C6_Witness ==
    /\ \E r \in orders : r.xid = ""
    /\ \E r \in orders : r.xid # "" /\ OrdOutboxOf(r.order_id, r.xid) # {}

\* the committed orders of (u, k)
OrdersOfKey(t, u, k) ==
    {r \in t : r.xid = "" /\ r.user_id = u /\ r.idempotency_key = k}

\* C7: for a fixed (user_id, idempotency_key), CreateOrder calls with matching
\* amount and description, sequential or concurrent, create exactly one order
\* with exactly one PaymentRequested outbox row, and every call that succeeds
\* returns that order's order_id.
C7_OneOrderPerKey ==
    /\ [](\A u \in Users, k \in Keys :
            /\ Cardinality(OrdersOfKey(orders, u, k)) <= 1
            /\ \A r \in OrdersOfKey(orders, u, k) :
                  Cardinality(OrdOutboxOf(r.order_id, "")) = 1)
    /\ [][\A w \in OrderWorkers :
            OrdReturns(w, OK) /\ ow[w].req.key # ""
            => /\ Cardinality(OrdersOfKey(orders', ow[w].req.user_id, ow[w].req.key)) = 1
               /\ \A r \in OrdersOfKey(orders', ow[w].req.user_id, ow[w].req.key) :
                     r.order_id = ow[w].body.order_id
               /\ \A f \in FirstOf(ordFirst', ow[w].req.user_id, ow[w].req.key) :
                     f.body.order_id = ow[w].body.order_id]_vars

\* the key's order exists and both workers are answering the same key from it
C7_Witness ==
    /\ running = "orders-rpc"
    /\ \A w \in OrderWorkers :
          /\ ow[w].pc = "reply"
          /\ ow[w].req.user_id = "u1" /\ ow[w].req.key = "k1"
          /\ FirstOf(ordFirst, "u1", "k1") # {}

\* C10: a retried CreateOrder with the same key and matching parameters returns
\* a body equal in every field (order_id, user_id, amount, description, status,
\* created_at) to the first call's, whenever it is retried, and changes no state.
C10_ReplayIdentical ==
    [][\A w \in OrderWorkers :
          ow[w].pc = "reply" /\ OrdReturns(w, OK)
          => /\ \A f \in FirstOf(ordFirst, ow[w].req.user_id, ow[w].req.key) :
                   f.body = ow[w].body
             /\ UNCHANGED <<orders, ordOutbox, ordInbox>>]_vars

\* ---- Payments
\* worker w returns code in this step, ending a transaction
PayReturns(w, code) == pw[w].pc # "idle" /\ pw'[w].pc = "idle" /\ payReply' = code

\* the PaymentResult rows of the outbox for order oid
PayOutboxOf(oid) ==
    {r \in payOutbox : r.topic = TopicPaymentResult /\ r.kafka_key = oid}

\* the inbox rows of Payments with message id, with order id
PayInboxOfMessage(id) == {r \in BagToSet(payInbox) : r.message_id = id}
PayInboxOfOrder(oid) == {r \in BagToSet(payInbox) : r.order_id = oid}

\* the committed topup_idempotency rows of (u, k)
TopupRows(t, u, k) == {r \in TopupKeyRows(t, u, k) : r.xid = ""}

\* some balance is lowered in this step
Debit == \E u \in DOMAIN accounts : accounts'[u] < accounts[u]

\* C2: every account's committed balance is >= 0, under any interleaving of
\* CreateAccount, TopUp with and without key, and debits.
C2_BalanceNonNegative == \A u \in DOMAIN accounts : accounts[u] >= 0

\* a debit has emptied the account, a keyed TopUp holds its uncommitted credit
\* and a further debit has just been refused
C2_Witness ==
    /\ "u1" \in DOMAIN accounts /\ accounts["u1"] = 0
    /\ \E r \in BagToSet(ops) : r.user_id = "u1"
    /\ pw["w1"].pc = "commit" /\ pw["w1"].req.user_id = "u1"
    /\ reqCons.pc = "exists" /\ reqCons.user_id = "u1"

\* C3: at most one payment_operations row per order_id, and every debit writes
\* the operation row of an order_id that had none: an account is debited at most
\* once per order, also by deliveries with another event_id for the same order.
C3_OneDebitPerOrder ==
    /\ [](\A r \in BagToSet(ops) :
            /\ CopiesIn(r, ops) = 1
            /\ \A q \in BagToSet(ops) : q.order_id = r.order_id => q = r)
    /\ [][Debit =>
            \E r \in BagToSet(ops') :
               /\ ~\E q \in BagToSet(ops) : q.order_id = r.order_id
               /\ ops' = ops (+) SetToBag({r})
               /\ accounts' = [accounts EXCEPT ![r.user_id] = @ - r.amount]]_vars

\* a new event_id for an order already debited was handled, funds sufficed, and
\* no second debit was made
C3_Witness ==
    /\ reqCons.pc = "exists" /\ reqCons.inserted = 1 /\ reqCons.opInserted = 0
    /\ \E r \in BagToSet(ops) : r.order_id = reqCons.orderID
    /\ reqCons.user_id \in DOMAIN accounts
    /\ accounts[reqCons.user_id] >= reqCons.amount

C8_TopUpCreditsOnce ==
    /\ [](\A u \in Users, k \in Keys : Cardinality(TopupRows(topupIdem, u, k)) <= 1)
    /\ [][\A u \in Users, k \in Keys :
            TopupRows(topupIdem, u, k) \subseteq TopupRows(topupIdem', u, k)]_vars
    /\ [][\A w \in PayWorkers :
            PayReturns(w, OK)
            => LET u == pw[w].req.user_id
                   k == pw[w].req.key
               IN /\ pw[w].pc = "commit"
                     => /\ TopupRows(topupIdem, u, k) = {}
                        /\ accounts'[u] = accounts[u] + pw[w].req.amount
                        /\ pw[w].balance = accounts'[u]
                  /\ pw[w].pc = "reply" => UNCHANGED <<accounts, topupIdem>>
                  /\ Cardinality(TopupRows(topupIdem', u, k)) = 1
                  /\ \A r \in TopupRows(topupIdem', u, k) :
                        r.balance_after = pw[w].balance /\ r.amount = pw[w].req.amount
                  /\ \A f \in FirstOf(payFirst', u, k) : f.body = pw[w].balance]_vars

\* a replay is answered with the recorded balance after a debit has lowered the
\* account below it
C8_Witness ==
    /\ pw["w1"].pc = "reply"
    /\ pw["w1"].req.user_id \in DOMAIN accounts
    /\ accounts[pw["w1"].req.user_id] < pw["w1"].balance
    /\ ops # EmptyBag

\* ---- both services
\* some order's status changes in this step
StatusChange ==
    \E oid \in OrderIds(orders) \cap OrderIds(orders') :
        OrderById(orders, oid).status # OrderById(orders', oid).status

\* C4: each consumer's inbox holds at most one row per event_id; an order's
\* status, a debit, an operation row and a PaymentResult row are committed only
\* together with the new inbox row of their event; a delivery whose inbox insert
\* reported a duplicate ends with the database as it was.
C4_InboxGuardsEffects ==
    /\ [](\A id \in EventIds :
            /\ CopiesIn(id, ordInbox) <= 1
            /\ Cardinality(PayInboxOfMessage(id)) <= 1
            /\ \A r \in PayInboxOfMessage(id) : CopiesIn(r, payInbox) = 1)
    /\ [][/\ StatusChange
             => \E id \in EventIds : /\ ~BagIn(id, ordInbox)
                                     /\ ordInbox' = ordInbox (+) SetToBag({id})
          /\ Debit \/ ops' # ops \/ payOutbox' # payOutbox
             => \E id \in EventIds, oid \in BusOrderIds :
                   /\ PayInboxOfMessage(id) = {}
                   /\ payInbox' = payInbox (+) SetToBag({[message_id |-> id, order_id |-> oid]})
          /\ resCons.pc = "commit" /\ resCons.inserted = 0 /\ resCons'.pc = "idle"
             => UNCHANGED <<orders, ordOutbox, ordInbox>>
          /\ reqCons.pc = "commit" /\ reqCons.inserted = 0 /\ reqCons'.pc = "idle"
             => UNCHANGED <<accounts, ops, topupIdem, payInbox, payOutbox>>]_vars

\* a PaymentRequested whose event_id is in the inbox asks to debit another order
\* of a funded account, and its transaction is about to commit
C4_Witness ==
    /\ reqCons.pc = "commit" /\ reqCons.inserted = 0
    /\ PayInboxOfMessage(reqCons.msgID) # {}
    /\ PayInboxOfOrder(reqCons.orderID) = {}
    /\ \E u \in DOMAIN accounts : accounts[u] > 0

\* C9: a keyed TopUp or CreateOrder answered FailedPrecondition leaves balance,
\* idempotency rows, orders and outbox as they were, and a keyed call succeeds
\* only with the parameters stored under its key.
C9_MismatchRejected ==
    [][/\ payReply' = FailedPrecondition
          => UNCHANGED <<accounts, topupIdem, ops, payInbox, payOutbox>>
       /\ ordReply' = FailedPrecondition
          => UNCHANGED <<orders, ordOutbox, ordInbox>>
       /\ \A w \in PayWorkers :
             PayReturns(w, OK)
             => \A r \in TopupRows(topupIdem', pw[w].req.user_id, pw[w].req.key) :
                   r.amount = pw[w].req.amount
       /\ \A w \in OrderWorkers :
             OrdReturns(w, OK) /\ ow[w].req.key # ""
             => \A r \in OrdersOfKey(orders', ow[w].req.user_id, ow[w].req.key) :
                   /\ r.amount = ow[w].req.amount
                   /\ r.description = ow[w].req.description]_vars

\* a TopUp has just been refused for reusing a key with another amount
C9_Witness ==
    /\ payReply = FailedPrecondition
    /\ \E r \in topupIdem : r.xid = "" /\ r.balance_after > 0

\* ---- the client's view of Payments
\* the CreateAccount response of this step, if it sent one
AccountReplied == accReply'.code # NoCode

\* C11: a keyed TopUp for a user without account is answered not_found and
\* leaves no topup_idempotency row of (user_id, key), so that every committed
\* row records a credit made to an existing account; the first call of that key
\* to succeed afterwards, the account existing by then, credits its amount, and
\* the calls after it credit nothing.
C11_NotFoundLeavesNoRow ==
    /\ [](\A r \in topupIdem :
            r.xid = "" => r.user_id \in DOMAIN accounts /\ r.balance_after >= r.amount)
    /\ [][\A w \in PayWorkers :
            PayReturns(w, NotFound)
            => /\ pw[w].req.user_id \notin DOMAIN accounts
               /\ TopupKeyRows(topupIdem', pw[w].req.user_id, pw[w].req.key) = {}
               /\ UNCHANGED <<accounts, ops, payInbox, payOutbox>>]_vars
    /\ [][\A w \in PayWorkers :
            PayReturns(w, OK) /\ <<pw[w].req.user_id, pw[w].req.key>> \in payMissed
            => LET u == pw[w].req.user_id
                   k == pw[w].req.key
               IN IF TopupRows(topupIdem, u, k) = {}
                  THEN /\ pw[w].pc = "commit"
                       /\ accounts'[u] = accounts[u] + pw[w].req.amount
                  ELSE accounts' = accounts]_vars

\* the key was answered not_found, the account was created since, and the retry
\* holds its credit, about to commit the key's first row
C11_Witness ==
    /\ <<"u1", "k1">> \in payMissed
    /\ "u1" \in DOMAIN accounts
    /\ TopupRows(topupIdem, "u1", "k1") = {}
    /\ \E w \in PayWorkers : pw[w].pc = "commit" /\ pw[w].req.key = "k1"

\* C12: accounts are only added, one at a time, each for a user that had none
\* and with balance 0, leaving the others as they were: a user never has two.
\* CreateAccount without key answers already_exists for a user that has an
\* account and leaves the accounts unchanged, and creates it otherwise.
C12_OneAccountPerUser ==
    /\ [][/\ \A u \in DOMAIN accounts : u \in DOMAIN accounts'
          /\ DOMAIN accounts' # DOMAIN accounts
             => /\ Cardinality(DOMAIN accounts' \ DOMAIN accounts) = 1
                /\ \A u \in DOMAIN accounts : accounts'[u] = accounts[u]
                /\ \A u \in DOMAIN accounts' \ DOMAIN accounts : accounts'[u] = 0]_vars
    /\ [][AccountReplied /\ accReply'.key = ""
          => IF accReply'.user_id \in DOMAIN accounts
             THEN accReply'.code = AlreadyExists /\ accounts' = accounts
             ELSE /\ accReply'.code = OK /\ accReply'.balance = 0
                  /\ accReply'.user_id \in DOMAIN accounts']_vars

\* CreateAccount without key was just refused for a funded account
C12_Witness ==
    /\ accReply.code = AlreadyExists /\ accReply.key = ""
    /\ accReply.user_id \in DOMAIN accounts
    /\ accounts[accReply.user_id] > 0

\* C13: CreateAccount with a key always succeeds; for a user that has an account,
\* however created and whatever top-ups and debits followed, it returns the
\* account's balance and leaves it as it is.
C13_KeyedCreateKeepsBalance ==
    [][AccountReplied /\ accReply'.key # ""
       => /\ accReply'.code = OK
          /\ accReply'.user_id \in DOMAIN accounts'
          /\ accReply'.balance = accounts'[accReply'.user_id]
          /\ accReply'.user_id \in DOMAIN accounts
             => /\ accounts' = accounts
                /\ accReply'.balance = accounts[accReply'.user_id]]_vars

\* a keyed CreateAccount was just answered with the balance of an account that
\* was topped up and debited before
C13_Witness ==
    /\ accReply.code = OK /\ accReply.key # ""
    /\ accReply.balance > 0
    /\ \E r \in BagToSet(ops) : r.user_id = accReply.user_id

\* the PaymentResult rows this step adds to the outbox of Payments
NewResults == payOutbox' \ payOutbox

\* C14: the PaymentResult written for a PaymentRequested is SUCCESS exactly when
\* the debit wrote the operation row, FAIL_NO_ACCOUNT exactly when it did not and
\* the user had no account when the debit was attempted, FAIL_NOT_ENOUGH_FUNDS
\* exactly when it did not and the account existed then, also while CreateAccount
\* and TopUp commit beside the handler.
C14_StatusClassifiesDebit ==
    [][\A r \in NewResults :
          r.payload.status =
             IF reqCons.opInserted = 1 THEN SUCCESS
             ELSE IF reqCons.existed THEN FAIL_NOT_ENOUGH_FUNDS ELSE FAIL_NO_ACCOUNT]_vars

\* ---- the consumer loops
\* a message the handlers must absorb: its payload does not decode or an
\* identifier is no UUID; for PaymentRequested also an empty user_id or an
\* amount <= 0
ResPoison(m) == ~m.decodes \/ m.event_id = BadUuid \/ m.order_id = BadUuid
ReqPoison(m) == ResPoison(m) \/ m.user_id = "" \/ m.amount <= 0

\* the transaction of message m has committed, now or at an earlier delivery,
\* or m is poison
ResSettled(m) == ResPoison(m) \/ BagIn(m.event_id, ordInbox)
ReqSettled(m) == ReqPoison(m) \/ PayInboxOfMessage(m.event_id) # {}

\* handleMessage returns an error, returns nil, in this step
ResErrors == resLoop.pc = "handle" /\ resLoop'.pc = "fetch"
ReqErrors == reqLoop.pc = "handle" /\ reqLoop'.pc = "fetch"
ResSucceeds == resLoop.pc = "handle" /\ resLoop'.pc = "ack"
ReqSucceeds == reqLoop.pc = "handle" /\ reqLoop'.pc = "ack"

\* C15: a consumer handler is all-or-nothing.  When it returns an error its
\* database is as before its transaction began and the group's offset is where
\* it was; inbox row, status change, debit, operation row and PaymentResult row
\* appear only in the step in which the handler succeeds, all of them together.
C15_HandlerAllOrNothing ==
    [][/\ ResErrors => /\ UNCHANGED <<orders, ordOutbox, ordInbox>>
                       /\ resLoop'.offset = resLoop.offset
       /\ ReqErrors => /\ UNCHANGED <<accounts, ops, topupIdem, payInbox, payOutbox>>
                       /\ reqLoop'.offset = reqLoop.offset
       /\ ordInbox' # ordInbox \/ StatusChange
          => ResSucceeds /\ ordInbox' # ordInbox
       /\ payInbox' # payInbox \/ payOutbox' # payOutbox \/ ops' # ops \/ Debit
          => /\ ReqSucceeds
             /\ payInbox' # payInbox /\ payOutbox' # payOutbox
             /\ Debit <=> ops' # ops]_vars

\* the handler of the partition's first PaymentRequested, which the account could
\* pay, has returned an error: nothing of it is in the database, the offset is
\* not committed and the loop has gone on
C15_Witness ==
    /\ reqLoop.pc = "fetch" /\ reqLoop.pos = 2 /\ reqLoop.offset = 1
    /\ ~ReqPoison(reqLoop.log[1])
    /\ payInbox = EmptyBag /\ ops = EmptyBag /\ payOutbox = {}
    /\ "u1" \in DOMAIN accounts /\ accounts["u1"] >= reqLoop.log[1].amount

\* a PaymentResult new to the inbox commits in this step
ResCommits == ResSucceeds /\ ordInbox' # ordInbox

\* C16: a PaymentResult that commits for an order that is NEW makes it FINISHED
\* if its status is SUCCESS and CANCELLED for any other status value; one that
\* commits for an order that is FINISHED or CANCELLED, whatever its event_id and
\* status, leaves it so; and an order's status changes in no other step.
C16_FirstResultDecides ==
    [][/\ ResCommits
          => \A r \in {q \in Committed(orders) : q.order_id = Fetched(resLoop).order_id} :
                OrderById(orders', r.order_id).status =
                   IF r.status # StatusNew THEN r.status
                   ELSE IF Fetched(resLoop).status = SUCCESS THEN StatusFinished
                   ELSE StatusCancelled
       /\ \A oid \in OrderIds(orders) \cap OrderIds(orders') :
             OrderById(orders, oid).status # OrderById(orders', oid).status
             => ResCommits /\ oid = Fetched(resLoop).order_id]_vars

\* two results with different event ids have committed for one order, a failure
\* and then a SUCCESS: the order is CANCELLED
C16_Witness ==
    /\ Len(resLoop.log) = 2 /\ resLoop.offset = 3
    /\ ~ResPoison(resLoop.log[1]) /\ ~ResPoison(resLoop.log[2])
    /\ resLoop.log[1].status # SUCCESS /\ resLoop.log[2].status = SUCCESS
    /\ resLoop.log[1].order_id = resLoop.log[2].order_id
    /\ BagIn(resLoop.log[1].event_id, ordInbox) /\ BagIn(resLoop.log[2].event_id, ordInbox)
    /\ resLoop.log[1].event_id # resLoop.log[2].event_id
    /\ \E r \in orders : r.order_id = resLoop.log[1].order_id /\ r.status = StatusCancelled

\* C17: in both loops the group's offset moves only by CommitMessages for the
\* message just handled, to the offset after it, once its handler has returned
\* nil: its transaction is committed (its event_id is in the inbox) or it is
\* poison, and no transaction is open.
C17_OffsetAfterCommit ==
    [][/\ resLoop'.offset # resLoop.offset
          => /\ resLoop.pc = "ack" /\ resCons.pc = "idle"
             /\ resLoop'.offset = resLoop.cur + 1
             /\ ResSettled(Fetched(resLoop))
       /\ reqLoop'.offset # reqLoop.offset
          => /\ reqLoop.pc = "ack" /\ reqCons.pc = "idle"
             /\ reqLoop'.offset = reqLoop.cur + 1
             /\ ReqSettled(Fetched(reqLoop))]_vars

\* the first PaymentResult has finished its order and its offset is committed
C17_Witness ==
    /\ resLoop.offset = 2 /\ resLoop.pc = "fetch"
    /\ ~ResPoison(resLoop.log[1])
    /\ BagIn(resLoop.log[1].event_id, ordInbox)
    /\ \E r \in orders : r.order_id = resLoop.log[1].order_id /\ r.status = StatusFinished

\* C18: the committed offset never passes a message whose handler has not
\* succeeded: a message whose handler returned an error is handed to the handler
\* again before any later offset is committed, also when the messages after it
\* are handled successfully.
C18_NoMessageSkipped ==
    /\ \A i \in 1..(resLoop.offset - 1) : ResSettled(resLoop.log[i])
    /\ \A i \in 1..(reqLoop.offset - 1) : ReqSettled(reqLoop.log[i])

\* C19: a poison message opens no transaction and changes nothing in the
\* database; its handler returns nil, CommitMessages commits the offset after
\* it, and the reader stands at the message that follows.
C19_PoisonAbsorbed ==
    /\ [](/\ resLoop.pc \in {"handle", "ack"} /\ ResPoison(Fetched(resLoop))
             => resCons.pc = "idle"
          /\ reqLoop.pc \in {"handle", "ack"} /\ ReqPoison(Fetched(reqLoop))
             => reqCons.pc = "idle")
    /\ [][/\ resLoop.pc = "handle" /\ ResPoison(Fetched(resLoop)) /\ resLoop'.pc # "handle"
             => /\ ResSucceeds
                /\ UNCHANGED <<orders, ordOutbox, ordInbox, resCons>>
          /\ reqLoop.pc = "handle" /\ ReqPoison(Fetched(reqLoop)) /\ reqLoop'.pc # "handle"
             => /\ ReqSucceeds
                /\ UNCHANGED <<accounts, ops, topupIdem, payInbox, payOutbox, reqCons>>
          /\ resLoop.pc = "ack" /\ ResPoison(Fetched(resLoop)) /\ resLoop'.pc = "fetch"
             => resLoop'.offset = resLoop.cur + 1 /\ resLoop'.pos = resLoop.cur + 1
          /\ reqLoop.pc = "ack" /\ ReqPoison(Fetched(reqLoop)) /\ reqLoop'.pc = "fetch"
             => reqLoop'.offset = reqLoop.cur + 1 /\ reqLoop'.pos = reqLoop.cur + 1]_vars

\* the partition's first message was poison; its offset is committed, the
\* PaymentRequested after it was consumed and the database holds that one alone
C19_Witness ==
    /\ reqLoop.offset = 3
    /\ ReqPoison(reqLoop.log[1]) /\ ~ReqPoison(reqLoop.log[2])
    /\ BagCardinality(payInbox) = 1
    /\ PayInboxOfMessage(reqLoop.log[2].event_id) # {}
    /\ Cardinality(payOutbox) = 1

\* ---- the publisher
\* the rows whose sent_at is set, as committed or as marked by the open pass
OutboxSent == {r \in ordOutbox : r.sent \/ r.id \in pub.sent}

\* C20: a row is marked sent only once the bus has accepted its message, with
\* key = kafka_key and value = payload, so every row with sent_at set is on the
\* bus, and sent_at never reverts.  A failed publish writes nothing to the bus
\* and does not end the pass; when the pass commits, the row has one attempt
\* more and a last_error and is still unsent.
C20_SentOnlyAfterPublish ==
    /\ [](\A r \in OutboxSent : [key |-> r.kafka_key, value |-> r.payload] \in bus)
    /\ [][/\ \A r \in ordOutbox : r.sent => \E q \in ordOutbox' : q.id = r.id /\ q.sent
          /\ pub'.failed # pub.failed /\ pub'.pc # "idle"
             => /\ pub'.pc = "publish" /\ pub'.i = pub.i + 1
                /\ pub'.sent = pub.sent /\ bus' = bus /\ ordOutbox' = ordOutbox
          /\ \A r \in ordOutbox, q \in ordOutbox' :
                q.id = r.id /\ <<q.sent, q.attempts, q.last_error>> # <<r.sent, r.attempts, r.last_error>>
                => /\ r.id \in pub.sent \cup pub.failed /\ pub'.pc = "idle"
                   /\ q.sent = (r.id \in pub.sent)
                   /\ r.id \in pub.failed /\ r.id \notin pub.sent
                      => /\ q.attempts = r.attempts + 1
                         /\ q.last_error # ""]_vars

\* a pass has committed with one row published and marked sent and another
\* whose publish failed, left unsent with an attempt and an error recorded
C20_Witness ==
    /\ pub.pc = "idle"
    /\ \E r \in ordOutbox : r.sent /\ OutboxMessage(r) \in bus
    /\ \E r \in ordOutbox : ~r.sent /\ r.attempts = 1 /\ r.last_error # ""
                                /\ OutboxMessage(r) \notin bus

\* the outbox row ids
OutboxIds == 1..(MaxOrders + 1)
\* the committed rows still without sent_at
Unsent(t) == {r \in Committed(t) : ~r.sent}
\* the pass of p commits
PassCommits(p) ==
    /\ Pass(p).pc = "publish" /\ Pass(p).i > Len(Pass(p).rows)
    /\ Pass(p)'.pc = "idle" /\ ordOutbox' # ordOutbox

\* C21: a failed publish does not end the pass, which goes on to the next row
\* with the sent marks it has made; when the pass commits, every row it marked
\* sent is sent, whatever happened to the others, and every row whose publish
\* failed is unsent and among the rows the next pass selects.
C21_PassCommitsRegardless ==
    [][/\ pub'.failed \ pub.failed # {}
          => /\ pub'.pc = "publish" /\ pub'.rows = pub.rows /\ pub'.i = pub.i + 1
             /\ pub.sent \subseteq pub'.sent
       /\ PassCommits("p1")
          => /\ \A id \in pub.sent : OutboxRowById(ordOutbox', id).sent
             /\ \A id \in pub.failed \ pub.sent :
                   /\ ~OutboxRowById(ordOutbox', id).sent
                   /\ id \in Held([rows |-> LockUnsentOutbox(ordOutbox', {}, Batch)])]_vars

\* a pass whose first publish failed went on to publish its second row and
\* committed both outcomes
C21_Witness ==
    /\ pub.pc = "idle"
    /\ \E r, q \in ordOutbox :
          /\ r.id < q.id
          /\ ~r.sent /\ r.attempts > 0
          /\ q.sent /\ q.attempts = 0

\* C22: with a bus that comes to accept each publish and a database that comes
\* to commit, every committed outbox row is eventually marked sent.
C22_OutboxLiveness ==
    \A id \in OutboxIds :
        (\E r \in Unsent(ordOutbox) : r.id = id) ~> (\E r \in Committed(ordOutbox) : r.id = id /\ r.sent)

\* a row is sent after its publish had failed
C22_Witness == \E r \in Committed(ordOutbox) : r.sent /\ r.attempts > 0

\* C23: a pass that fails returns Run to its tick: the publisher stops only
\* when the context is cancelled while it waits.  No outbox row is ever
\* deleted, and a committed unsent row is selected by the next pass whatever
\* its attempts.
C23_PublisherNeverGivesUp ==
    /\ [][/\ pub.pc = "publish" => pub'.pc \in {"publish", "idle"}
          /\ \A r \in Committed(ordOutbox) : \E q \in Committed(ordOutbox') : q.id = r.id]_vars
    /\ [](pub.pc = "idle" /\ Unsent(ordOutbox) # {}
          => /\ LockUnsentOutbox(ordOutbox, {}, Batch) # <<>>
             /\ \A r \in Unsent(ordOutbox) :
                   r.attempts > 0 => r.id \in Held([rows |-> LockUnsentOutbox(ordOutbox, {},
                                                            Cardinality(ordOutbox))]))

\* after a pass that was rolled back and passes whose publish failed as often
\* as the model follows, the row is locked once more
C23_Witness ==
    /\ pub.pc = "publish"
    /\ \E r \in Unsent(ordOutbox) : r.attempts = MaxAttempts /\ r.id \in Held(pub)
    /\ bus # {}

\* C24: in the committed outbox sent_at never goes back to unset and attempts
\* never decreases; a pass holds and publishes only rows that are committed as
\* unsent.
C24_SentIsFinal ==
    /\ [](\A id \in Held(pub) : ~OutboxRowById(ordOutbox, id).sent)
    /\ [][/\ \A r \in Committed(ordOutbox) : \A q \in Committed(ordOutbox') :
                q.id = r.id => (r.sent => q.sent) /\ q.attempts >= r.attempts
          /\ \A m \in bus' \ bus :
                \E r \in Unsent(ordOutbox) : m = OutboxMessage(r) /\ r.id \in Held(pub)]_vars

\* a pass is publishing the second row while the first is committed as sent
C24_Witness ==
    /\ pub.pc = "publish" /\ pub.i = 1
    /\ \E r \in Committed(ordOutbox) : r.sent /\ r.id \notin Held(pub)

\* C25: with two instances on one outbox no row is held by both passes, no
\* row is lost, and every row either of them marks sent is on the bus.
C25_TwoPublishersSafe ==
    /\ [](/\ Held(pub) \cap Held(peer) = {}
          /\ \A r \in ordOutbox :
                r.sent \/ r.id \in pub.sent \cup peer.sent => OutboxMessage(r) \in bus)
    /\ [][\A r \in Committed(ordOutbox) : \E q \in Committed(ordOutbox') :
             q.id = r.id /\ (r.sent => q.sent)]_vars

\* the two instances hold one row each, and each has published its row
C25_Witness ==
    /\ pub.pc = "publish" /\ peer.pc = "publish"
    /\ pub.sent # {} /\ peer.sent # {}

\* ---- validation
\* C29: a call answered invalid_argument changes no table, and nothing a call
\* writes or holds in an open transaction comes from an invalid request: no
\* order with an empty user_id, an amount <= 0 or an empty description, no
\* account with an empty user_id, no top-up of an amount <= 0.
C29_ValidationFirst ==
    /\ [](/\ \A r \in orders : r.user_id # "" /\ r.amount > 0 /\ r.description # ""
          /\ \A r \in ordOutbox : r.payload.user_id # "" /\ r.payload.amount > 0
          /\ "" \notin DOMAIN accounts
          /\ \A r \in topupIdem : r.user_id # "" /\ r.amount > 0
          /\ \A w \in OrderWorkers : ow[w].pc # "idle" => CreateOrderValid(ow[w].req)
          /\ \A w \in PayWorkers : pw[w].pc # "idle" => PayValid(pw[w].req))
    /\ [][/\ ordReply' = InvalidArgument => UNCHANGED <<orders, ordOutbox, ordInbox>>
          /\ payReply' = InvalidArgument
             => UNCHANGED <<accounts, topupIdem, ops, payInbox, payOutbox>>
          /\ \A u \in DOMAIN accounts : accounts'[u] >= accounts[u]]_vars

\* a TopUp has just been refused as invalid while the account holds money and
\* a key is recorded
C29_Witness ==
    /\ payReply = InvalidArgument
    /\ \E u \in DOMAIN accounts : accounts[u] > 0
    /\ Committed(topupIdem) # {}

\* ---- the balance reads
\* the debits committed for u
DebitsOf(u) == {r \in BagToSet(ops) : r.user_id = u}

\* C30: once a debit of the user's account has committed, GetBalance answers
\* with the balance of the account row, with the cache enabled or not.
C30_BalanceAfterDebit ==
    balReply.code = OK /\ DebitsOf(balReply.user_id) # {}
    => balReply.balance = accounts[balReply.user_id]

\* C31: the cache never influences the database.  Whatever the cache is
\* (disabled, enabled, failing, holding stale content), every step of a command
\* or of the consumer is, on the tables and on the response, a step of the same
\* handler given no cache; a balance read and an expiry change no table.
C31_CacheNeverInfluences ==
    [][\/ NextPaymentsNoCache
       \/ /\ balReply'.code # NoCode \/ cache' # cache
          /\ UNCHANGED <<accounts, ops, topupIdem, payInbox, payOutbox, payFirst, reqCons>>]_vars

\* a TopUp is answered ok while the enabled cache holds a balance that is not
\* the account's, after a debit
C31_Witness ==
    /\ cache.on /\ "u1" \in DOMAIN cache.entries /\ "u1" \in DOMAIN accounts
    /\ DebitsOf("u1") # {}
    /\ payReply = OK /\ balReply.code = NoCode
    /\ accounts["u1"] = 2 /\ cache.entries["u1"] = 1
    /\ payFirst # {}

\* ---- the paging of ListOrders
\* the offsets followed through encodeOffset and decodeOffset: one, two and
\* three digits (each padding of base64), and the largest int32
Offsets == 0..130 \cup {2147483647}
\* the offset a request starts at
OffsetOf(req) == IF req.page_token = <<>> THEN 0 ELSE decodeOffset(req.page_token).n
\* the committed orders of u
OrdersOf(u) == {r.order_id : r \in {q \in Committed(orders) : q.user_id = u}}

\* C32: a response carries a next_page_token exactly when it returns as many
\* orders as the effective limit (the request's if > 0, else 50); the token
\* encodes offset + limit; decodeOffset undoes encodeOffset on every offset
\* >= 0; and a client that follows the tokens from the first page over an
\* unchanging table is shown every order of the user exactly once.
C32_PagingCoversOnce ==
    /\ \A n \in Offsets : decodeOffset(encodeOffset(n)) = [ok |-> TRUE, n |-> n]
    /\ list.reply.code = OK =>
         /\ list.reply.next_page_token # <<>>
              <=> Len(list.reply.orders) = EffectiveLimit(list.req.limit)
         /\ list.reply.next_page_token # <<>> =>
              /\ list.reply.next_page_token
                   = encodeOffset(OffsetOf(list.req) + EffectiveLimit(list.req.limit))
              /\ decodeOffset(list.reply.next_page_token).n
                   = OffsetOf(list.req) + Len(list.reply.orders)
    /\ list.walking =>
         /\ \A i, j \in 1..Len(list.seen) : i # j => list.seen[i] # list.seen[j]
         /\ {list.seen[i] : i \in 1..Len(list.seen)} \subseteq OrdersOf(list.req.user_id)
         /\ list.reply.next_page_token = <<>> =>
              Len(list.seen) = Cardinality(OrdersOf(list.req.user_id))

\* a client that names no limit has been shown a user's 51 orders in a page of
\* 50 and a page of one
C32_WitnessDefault ==
    /\ list.walking /\ list.req.limit = 0 /\ Len(list.seen) = DefaultLimit + 1
    /\ list.reply.code = OK /\ Len(list.reply.orders) = 1
    /\ list.reply.next_page_token = <<>>
    /\ list.req.page_token = encodeOffset(DefaultLimit)

\* a client has walked three orders of a user, two of them created at the same
\* instant, in pages of one, and the last page came back empty
C32_Witness ==
    /\ list.walking /\ list.req.limit = 1 /\ Len(list.seen) = 3
    /\ list.reply.code = OK /\ list.reply.orders = <<>>
    /\ list.reply.next_page_token = <<>>
    /\ \E a, b \in Committed(orders) : a.order_id # b.order_id /\ a.created_at = b.created_at
    /\ OffsetOf(list.req) = 3

\* ---- the gateway
\* C33: a POST under the base path whose Idempotency-Key is missing or blank is
\* answered 400 by the middleware before any handler runs: no RPC is sent to
\* Orders or Payments and nothing of either service changes.
C33_KeyRequiredForPost ==
    [][gw'.req.method = "POST" /\ HasPrefix(gw'.req.path, BasePath)
       /\ (gw'.req.key = <<>> \/ \A i \in 1..Len(gw'.req.key) : gw'.req.key[i] = " ")
       => /\ gw'.status = StatusBadRequest
          /\ gw'.calls = gw.calls
          /\ UNCHANGED <<OrdSide, PaySide, Wire>>]_vars

\* a POST of a valid order with a blank key has been answered 400 after other
\* requests were forwarded
C33_Witness ==
    /\ gw.req = [method |-> "POST", path |-> BasePath \o <<"orders">>, key |-> <<" ">>,
                 amount |-> 1]
    /\ gw.status = StatusBadRequest
    /\ gw.calls # {} /\ \A call \in gw.calls : TrimSpace(call.key) # <<>> \/ call.rpc = "ListOrders"

\* ---- both services
\* the operation rows of an order
OpsOf(oid) == {r \in BagToSet(ops) : r.order_id = oid}
\* the PaymentResults emitted for an order
ResultsOf(oid) == {r \in payOutbox : r.payload.order_id = oid}
\* the order has its final status
Settled(oid) == \E o \in Committed(orders) : o.order_id = oid /\ o.status \in Terminal

\* C26: every committed order eventually has its PaymentResult emitted and
\* consumed and reaches FINISHED or CANCELLED, also when handler transactions
\* fail now and then; at most one PaymentResult is ever emitted for it.
C26_OrderConverges ==
    /\ [](\A oid \in 1..MaxOrders : Cardinality(ResultsOf(oid)) <= 1)
    /\ \A oid \in 1..MaxOrders :
          (\E o \in Committed(orders) : o.order_id = oid) ~> Settled(oid)

\* C27: a FINISHED order has exactly one operation row, of its user and
\* amount, and a CANCELLED order has none; a balance changes only in the step
\* that writes an operation row, by that row's amount.
C27_StatusAgreesWithMoney ==
    /\ [](\A o \in Committed(orders) :
            /\ o.status = StatusFinished
               => /\ OpsOf(o.order_id) = {[order_id |-> o.order_id, user_id |-> o.user_id,
                                          amount |-> o.amount]}
                  /\ BagCardinality(ops) = Cardinality(BagToSet(ops))
            /\ o.status = StatusCancelled => OpsOf(o.order_id) = {})
    /\ [][\A u \in DOMAIN accounts :
             accounts'[u] # accounts[u]
             => /\ BagCardinality(ops') = BagCardinality(ops) + 1
                /\ \E r \in BagToSet(ops') \ BagToSet(ops) :
                      r.user_id = u /\ accounts'[u] = accounts[u] - r.amount]_vars

\* an order is CANCELLED for lack of funds: the account is there, untouched
C27_Witness ==
    /\ \E o \in Committed(orders) : o.status = StatusCancelled
    /\ "u1" \in DOMAIN accounts /\ accounts["u1"] = 0
    /\ ops = EmptyBag
    /\ \E r \in payOutbox : r.payload.status = FAIL_NOT_ENOUGH_FUNDS

\* C28: when passes of the Orders publisher are cut short before the publish,
\* or after it and before sent_at is committed, the row is published again,
\* the account is debited once and the order reaches its final status.
C28_PublisherCrashHarmless ==
    /\ [](\A oid \in 1..MaxOrders :
            /\ Cardinality(OpsOf(oid)) <= 1
            /\ BagCardinality(ops) = Cardinality(BagToSet(ops))
            /\ Cardinality(ResultsOf(oid)) <= 1)
    /\ [][\A u \in DOMAIN accounts :
             accounts'[u] # accounts[u]
             => /\ BagCardinality(ops') = BagCardinality(ops) + 1
                /\ accounts'[u] = accounts[u] - 1]_vars
    /\ \A oid \in 1..MaxOrders :
          (\E o \in Committed(orders) : o.order_id = oid) ~> Settled(oid)

\* the PaymentRequested of an order was published twice, the account debited
\* once and the order is FINISHED
C28_Witness ==
    /\ Len(reqLoop.log) = 2 /\ reqLoop.log[1] = reqLoop.log[2]
    /\ \E o \in Committed(orders) : o.status = StatusFinished
    /\ BagCardinality(ops) = 1 /\ accounts["u1"] = 0
    /\ \A r \in ordOutbox : r.sent

\* ---- shutdown
\* the loops of a service have returned
Returned(svc) ==
    IF svc = "orders"
    THEN resLoop.pc \in {"done", "stopped"} /\ pub.pc = "stopped"
    ELSE reqLoop.pc \in {"done", "stopped"}

\* C34: once the root context of a service is cancelled, each of its loops
\* terminates, and returns nil whatever step it was in: no Run returns an
\* error after the cancellation; a handler transaction is committed whole
\* (inbox row with the status update, resp. with the operation and outbox rows)
\* or not at all.
C34_ShutdownReturnsNil ==
    /\ [][/\ ctx.orders /\ resLoop.pc # "stopped" => resLoop'.pc # "stopped"
          /\ ctx.payments /\ reqLoop.pc # "stopped" => reqLoop'.pc # "stopped"
          /\ ordInbox' # ordInbox => resCons.pc = "commit" /\ resLoop'.pc = "ack"
          /\ (\E r \in orders, q \in orders' : q.order_id = r.order_id /\ q.status # r.status)
                => ordInbox' # ordInbox
          /\ payInbox' # payInbox => reqCons.pc = "commit" /\ reqLoop'.pc = "ack"
          /\ ops' # ops \/ Cardinality(payOutbox') # Cardinality(payOutbox)
                => payInbox' # payInbox]_vars
    /\ \A svc \in {"orders", "payments"} : ctx[svc] ~> Returned(svc)

\* ---- money
\* the sum of the amounts of the operation rows in set S of bag b
RECURSIVE SumAmounts(_, _)
SumAmounts(b, S) ==
    IF S = {} THEN 0
    ELSE LET r == CHOOSE x \in S : TRUE
         IN r.amount * CopiesIn(r, b) + SumAmounts(b, S \ {r})
\* the sum of the payment_operations rows of u
Debited(u) == SumAmounts(ops, DebitsOf(u))

\* C35: money is conserved.  In every committed state the balance of every
\* account is the sum of the top-ups that took effect minus the sum of the
\* amounts of the user's payment_operations rows, under any interleaving of
\* TopUp calls with and without key and PaymentRequested handling.
C35_MoneyConserved ==
    \A u \in DOMAIN accounts : accounts[u] = credited[u] - Debited(u)

\* an account with a top-up by key, more credit than that, and a debit
C35_Witness ==
    /\ "u1" \in DOMAIN accounts /\ Debited("u1") >= 1 /\ credited["u1"] >= 2
    /\ \E r \in Committed(topupIdem) : r.user_id = "u1"
    /\ accounts["u1"] = credited["u1"] - Debited("u1")

\* ---- the replay of a TopUp
\* the calls that found the idempotency row of their (user_id, key)
Replaying == {w \in PayWorkers : pw[w].pc = "reply" /\ pw[w].req.op = "TopUp"}

\* C36: a TopUp replay never returns the placeholder balance_after = 0 of
\* InsertTopupIdempotency.  No committed idempotency row holds it, and every
\* call that finds the row of its (user_id, key) answers with the balance_after
\* of that row, which is the balance the crediting call was answered with, also
\* when the calls overlap.
C36_ReplayNeverPlaceholder ==
    /\ \A r \in Committed(topupIdem) : r.balance_after >= r.amount /\ r.amount > 0
    /\ \A w \in Replaying :
          /\ pw[w].balance # 0
          /\ GetTopupIdempotency(topupIdem, pw[w].req.user_id, pw[w].req.key).balance_after
                = pw[w].balance
          /\ \A f \in FirstOf(payFirst, pw[w].req.user_id, pw[w].req.key) :
                f.body = pw[w].balance

\* a call replays a top-up that was credited on top of earlier money and
\* answered, while another top-up is open
C36_Witness ==
    /\ \E w \in Replaying :
          /\ pw[w].balance = 2
          /\ FirstOf(payFirst, pw[w].req.user_id, pw[w].req.key) # {}
    /\ \E x \in PayWorkers : pw[x].pc = "commit" /\ pw[x].req.op = "TopUp"

\* ---- a pass that fails at MarkOutboxSent
\* the offsets at which the partition holds the PaymentRequested of an order
PublishedAt(log, oid) == {k \in 1..Len(log) : log[k].order_id = oid}
\* the row the pass is at is published and the pass ends: MarkOutboxSent failed
MarkFails ==
    /\ pub.pc = "publish" /\ pub.i <= Len(pub.rows)
    /\ Len(reqLoop'.log) > Len(reqLoop.log) /\ pub'.pc = "idle"

\* C37: when MarkOutboxSent fails, the whole pass is rolled back: the outbox
\* is as before the pass, so the rows published earlier in the pass and the
\* row at hand are on the bus, unsent, and selected by the next pass, which
\* publishes a row before it marks it (the bus sees the message again).  No
\* row is marked sent without having been published.
C37_MarkFailureRollsBack ==
    /\ [](\A r \in OutboxSent : PublishedAt(reqLoop.log, r.payload.order_id) # {})
    /\ [][/\ MarkFails =>
               /\ ordOutbox' = ordOutbox
               /\ \A id \in pub.sent \cup {pub.rows[pub.i]} :
                     /\ \E r \in Unsent(ordOutbox') :
                           r.id = id /\ PublishedAt(reqLoop'.log, r.payload.order_id) # {}
                     /\ id \in Held([rows |-> LockUnsentOutbox(ordOutbox', {}, Batch)])
          /\ \A id \in pub'.sent \ pub.sent :
                /\ Len(reqLoop'.log) = Len(reqLoop.log) + 1
                /\ reqLoop'.log[Len(reqLoop'.log)].order_id
                     = OutboxRowById(ordOutbox, id).payload.order_id]_vars

\* a pass published its first row and failed to mark the second; a later pass
\* published both again and committed: each message is on the bus twice
C37_Witness ==
    /\ Cardinality(ordOutbox) = 2 /\ pub.pc = "idle"
    /\ \A r \in ordOutbox :
          r.sent /\ r.attempts = 0
          /\ Cardinality(PublishedAt(reqLoop.log, r.payload.order_id)) = 2
    /\ reqLoop.log[1].order_id # reqLoop.log[2].order_id

\* ---- the reads of an order
\* C38: the status GetOrder shows is monotonic per order.  Once a response has
\* shown an order FINISHED or CANCELLED, no call that begins later is answered
\* NEW for it, under any interleaving of concurrent GetOrder calls with the
\* consumer's update.
C38_StatusReadsMonotonic ==
    ~(gets.reply.code = OK /\ gets.reply.order.status = StatusNew /\ gets.reply.late)

\* C39: GetOrder never returns an order of another user, whatever the cache
\* holds.  An ok response carries the user_id of the request; an entry of
\* another user is not answered from but sends the call to the database, and
\* a call for which the table holds no row of that order and user is answered
\* NotFound.
C39_OnlyOwnOrders ==
    /\ [](gets.reply.code = OK
          => /\ gets.reply.order.user_id = gets.reply.req.user_id
             /\ gets.reply.order.order_id = gets.reply.req.order_id)
    /\ [][gets'.calls = gets.calls /\ gets' # gets /\ gets'.reply.code = OK
            => \E oid \in DOMAIN orderCache.entries :
                  /\ oid = gets'.reply.req.order_id
                  /\ orderCache.entries[oid].user_id = gets'.reply.req.user_id]_vars
    /\ [][\A g \in Getters :
            /\ gets.calls[g].pc = "query" /\ gets'.calls[g].pc # "query"
               /\ GetOrder(orders, gets.calls[g].req.order_id, gets.calls[g].req.user_id) = {}
               => /\ gets'.reply.req = gets.calls[g].req
                  /\ gets'.reply.code = NotFound /\ gets'.reply.order = NoOrder
            /\ gets'.calls[g].pc = "set" /\ gets.calls[g].pc # "set"
               => gets'.calls[g].row.user_id = gets'.calls[g].req.user_id]_vars

\* u2 asks for the order of u1 while the cache holds it as read by u1, and is
\* answered NotFound
C39_Witness ==
    /\ gets.reply.code = NotFound
    /\ gets.reply.req = [user_id |-> "u2", order_id |-> 1]
    /\ \E r \in Committed(orders) : r.order_id = 1 /\ r.user_id = "u1"
    /\ OrderCacheHit(orderCache, 1) /\ orderCache.entries[1].user_id = "u1"

\* ---- the PaymentResult
\* C40: every PaymentResult the handler writes has status SUCCESS,
\* FAIL_NO_ACCOUNT or FAIL_NOT_ENOUGH_FUNDS, never FAIL_INTERNAL, however often
\* the PaymentRequested is delivered again after failed handler transactions,
\* and its reason is empty exactly when the status is SUCCESS.
C40_ResultStatuses ==
    \A r \in payOutbox :
        /\ r.payload.status \in {SUCCESS, FAIL_NO_ACCOUNT, FAIL_NOT_ENOUGH_FUNDS}
        /\ r.payload.reason = "" <=> r.payload.status = SUCCESS

\* a debit and a refusal for want of an account have both been answered
C40_Witness ==
    /\ \E r \in payOutbox : r.payload.status = SUCCESS /\ r.payload.reason = ""
    /\ \E r \in payOutbox : r.payload.status = FAIL_NO_ACCOUNT /\ r.payload.reason # ""

====
